---- MODULE Spec2Model ----
(***************************************************************************)
(* A model of flex-parse's single-pass tokenizing parser (parse), of the   *)
(* whitespace helpers it calls (isWhitespace, truncateWhitespace) and of   *)
(* the part of the tree model it relies on (Node, appendChild).            *)
(*                                                                         *)
(* A JavaScript string is a sequence of characters; a character is a       *)
(* one-element TLA+ string ("U+0085" and the like name code points that    *)
(* have no printable form).  The JavaScript value undefined of gate,       *)
(* ntype and ttype is the string "undefined".                              *)
(***************************************************************************)
EXTENDS Integers, Sequences, FiniteSets

VARIABLES
    options,  \* the normalised options object of this call
    profile,  \* which family of inputs the caller feeds (fixed per behaviour)
    doc,      \* the pieces of input handed to the scan so far, in order
    feed,     \* characters of the current piece not yet scanned
    lead,     \* the whitespace of the caller's input that data.trim() took off its start
    data,     \* data[0 .. i]: the characters of the trimmed input scanned so far
    nodes,    \* every Node created by this call; nodes[1] is root
    node,     \* index of the open node
    nbuf,     \* node buffer
    abuf,     \* attribute name buffer
    cbuf,     \* character buffer
    gate,     \* where cbuf is meant to be flushed
    ntype,    \* node type that is currently open
    ttype,    \* tag type of the currently open tag declaration
    rmode,    \* raw text mode
    rmbuf,    \* raw text mode sequence end buffer
    pc,       \* "scan" | "returned" | "thrown"
    err,      \* the error thrown, "none" while there is none
    at,       \* the charNumber the error was constructed with, 0 when it has none
    hooks,    \* the calls made to the caller's hooks so far: <<hook, argument>>
    snapshots, \* the objects handed to options.onSnapshot so far, in order
    last,     \* what the last step of the scan did (a label, for the properties)
    tw,       \* a call of truncateWhitespace made on its own: its arguments and locals
    calls     \* the caller's options object across calls of parse, and what each call returned

vars == <<options, profile, doc, feed, lead, data, nodes, node, nbuf, abuf, cbuf, gate,
          ntype, ttype, rmode, rmbuf, pc, err, at, hooks, snapshots, last, tw, calls>>

\* the variables of a call of parse
parseVars == <<options, profile, doc, feed, lead, data, nodes, node, nbuf, abuf, cbuf,
               gate, ntype, ttype, rmode, rmbuf, pc, err, at, hooks, snapshots, last>>

-----------------------------------------------------------------------------
(* Character constants *)

LT_SIGN == "<"
GT_SIGN == ">"
EQ_SIGN == "="
S_QUOTE == "'"
D_QUOTE == "\""
F_SLASH == "/"
BANG == "!"
DASH == "-"

CHARACTER_TABULATION == "\t"
LINE_FEED == "\n"
SPACE == " "
NEXT_LINE == "U+0085"
ZERO_WIDTH_SPACE == "U+200B"
MIDDLE_DOT == "U+00B7"

(* Gates *)
TAG_NAME == "tag name"
ATT_NAME == "attribute name"
SQ_A_VAL == "single-quote attribute value"
DQ_A_VAL == "double-quote attribute value"
NQ_A_VAL == "no-quote attribute value"

(* Node types *)
COMMENT == "comment"
ELEMENT == "element"
TEXT == "text"

(* Tag types *)
CL_TAG == "closing tag"
SC_TAG == "self-closing tag"

Undefined == "undefined"

(* Errors *)
UnexpectedTokenError == "UnexpectedTokenError"
UnmatchedClosingTag == "UnmatchedClosingTag"
UnexpectedEndOfInput == "Error: Unexpected end of input"
OnTextTypeError == "Error: Expected the result of 'onText' to be a string"

-----------------------------------------------------------------------------
(* Bounds of the model *)

\* longest input, in characters, of the character-by-character profile
MaxLen == 5
\* most pieces (tags, text runs, comments) of an input of the document profile
MaxPieces == 5
\* most characters scanned after the opening tag in the raw-text profile
MaxRaw == 6
\* most pieces of an input of the text profile
MaxText == 4
\* most characters scanned after the "<!--" of the comment profile
MaxComment == 5
\* most pieces ("<", a name, "/", ">", a whitespace character) of the tag profile
MaxTag == 10
\* most characters scanned after the start of the tag in the attribute profile
MaxAttribute == 5
\* most pieces of an input of the mixed profile
MaxMixed == 4
\* whitespace characters before the first character of the trimmed input
MaxLead == 2
\* pieces of an input of the nesting profile
MaxNest == 4
\* characters of a string handed to truncateWhitespace
MaxString == 4
\* pieces of the input parsed repeatedly with one options object
MaxCallPieces == 3
\* calls of parse made with one options object
MaxCalls == 2
\* characters after the opening quote, in the quoted-value profile
MaxQuoted == 4

-----------------------------------------------------------------------------
(* Strings *)

Min(S) == CHOOSE x \in S : \A y \in S : x <= y
Max(S) == CHOOSE x \in S : \A y \in S : x >= y

\* s.substring(0, n)
Substring0(s, n) == IF n <= 0 THEN <<>> ELSE SubSeq(s, 1, IF n > Len(s) THEN Len(s) ELSE n)

\* String.prototype.toLowerCase, on the letters the inputs use
LowerChar(c) ==
    CASE c = "A" -> "a"
      [] c = "B" -> "b"
      [] c = "S" -> "s"
      [] OTHER -> c

toLowerCase(s) == [i \in 1..Len(s) |-> LowerChar(s[i])]

\* The characters String.prototype.trim strips (ECMAScript WhiteSpace and
\* LineTerminator).  U+0085 and U+200B are not among them.
JsTrimmed(c) == c \in {CHARACTER_TABULATION, LINE_FEED, SPACE}

\* String.prototype.trim
trim(s) ==
    LET keep == {i \in 1..Len(s) : ~JsTrimmed(s[i])}
    IN IF keep = {} THEN <<>> ELSE SubSeq(s, Min(keep), Max(keep))

isWhitespace(char, includeSymbols) ==
    \/ char \in {CHARACTER_TABULATION, LINE_FEED, SPACE, NEXT_LINE, ZERO_WIDTH_SPACE}
    \/ includeSymbols /\ char = MIDDLE_DOT

RECURSIVE truncateFrom(_, _, _, _)
truncateFrom(string, includeSymbols, k, n) ==
    IF k > Len(string) THEN n
    ELSE LET c == string[k]
             p == IF n = <<>> THEN Undefined ELSE n[Len(n)]
         IN IF isWhitespace(c, includeSymbols)
            THEN IF p = SPACE
                 THEN truncateFrom(string, includeSymbols, k + 1, n)
                 ELSE truncateFrom(string, includeSymbols, k + 1, Append(n, SPACE))
            ELSE truncateFrom(string, includeSymbols, k + 1, Append(n, c))

truncateWhitespace(string, includeSymbols) == truncateFrom(string, includeSymbols, 1, <<>>)

\* a loop body that appends a space for every whitespace character
TruncateChar_EveryCharacter(string, includeSymbols, k, n) ==
    IF isWhitespace(string[k], includeSymbols) THEN Append(n, SPACE)
    ELSE Append(n, string[k])

\* a loop body that looks for the space before c in the input, not in n
TruncateChar_LooksAtInput(string, includeSymbols, k, n) ==
    LET c == string[k]
        p == IF k = 1 THEN Undefined ELSE string[k - 1]
    IN IF isWhitespace(c, includeSymbols)
       THEN IF p = SPACE THEN n ELSE Append(n, SPACE)
       ELSE Append(n, c)

\* the body of `for (let c of string)`, c being string[k]: n after the pass
TruncateChar(string, includeSymbols, k, n) ==
    LET c == string[k]
        p == IF n = <<>> THEN Undefined ELSE n[Len(n)]
    IN IF isWhitespace(c, includeSymbols)
       THEN IF p = SPACE THEN n ELSE Append(n, SPACE)
       ELSE Append(n, c)

-----------------------------------------------------------------------------
(* Names used by the inputs and by the option lists *)

Str1(a) == <<a>>
ROOT == <<"R", "O", "O", "T">>

HtmlRawTextElements ==
    { <<"s","c","r","i","p","t">>, <<"s","t","y","l","e">>, <<"t","i","t","l","e">>,
      <<"t","e","x","t","a","r","e","a">> }

HtmlVoidElements ==
    { <<"a","r","e","a">>, <<"b","a","s","e">>, <<"b","r">>, <<"c","o","l">>,
      <<"c","o","m","m","a","n","d">>, <<"e","m","b","e","d">>, <<"h","r">>,
      <<"i","m","g">>, <<"i","n","p","u","t">>, <<"k","e","y","g","e","n">>,
      <<"l","i","n","k">>, <<"m","e","t","a">>, <<"p","a","r","a","m">>,
      <<"s","o","u","r","c","e">>, <<"t","r","a","c","k">>, <<"w","b","r">> }

\* hashArray(arr, toLowerCase): the set of keys of the hash it returns
hashArray(arr, lower) == {IF lower THEN toLowerCase(item) ELSE item : item \in arr}

\* The options object after parse has set its defaults (the caller's lists are
\* hashed, and merged with the HTML sets under htmlMode).
SetDefaults(o) ==
    [o EXCEPT
        !.rawTextElements =
            IF o.htmlMode
            THEN hashArray(o.rawTextElements, o.htmlMode) \cup HtmlRawTextElements
            ELSE hashArray(o.rawTextElements, o.htmlMode),
        !.voidElements =
            IF o.htmlMode
            THEN hashArray(o.voidElements, o.htmlMode) \cup HtmlVoidElements
            ELSE hashArray(o.voidElements, o.htmlMode)]

\* parse called with no options object
DefaultOptions ==
    [htmlMode |-> FALSE, ignoreEmptyText |-> FALSE, onSnapshot |-> Undefined,
     onText |-> Undefined,
     onAttribute |-> Undefined, rawTextElements |-> {}, voidElements |-> {},
     trimAttributes |-> FALSE, trimText |-> FALSE, truncateAttributes |-> FALSE,
     truncateText |-> FALSE]

-----------------------------------------------------------------------------
(* The hooks a caller may pass.  A hook is a caller's function; the model   *)
(* draws it from a few functions that tell the cases of the code apart.     *)

\* options.onText(text): "pad" wraps the text in spaces, "blank" answers one
\* space, "number" answers a value that is no string.
CallOnText(hook, text) ==
    CASE hook = "pad" -> [isString |-> TRUE, value |-> <<SPACE>> \o text \o <<SPACE>>]
      [] hook = "blank" -> [isString |-> TRUE, value |-> <<SPACE>>]
      [] OTHER -> [isString |-> FALSE, value |-> <<>>]

\* What a hook answers: an array of items or something that is no array.  An
\* item is a string (its characters), or a number, a boolean or an object,
\* which is kept as a value of its own kind and never as characters.
JsString(chars) == [type |-> "string", v |-> chars]
JsNumber7 == [type |-> "number", v |-> <<"number 7">>]
JsTrue == [type |-> "boolean", v |-> <<"boolean true">>]
JsObject == [type |-> "object", v |-> <<"object">>]
JsArray(items) == [isArray |-> TRUE, items |-> items]
JsUndefined == [isArray |-> FALSE, items |-> <<>>]

\* options.onAttribute(name, "", context): "value" answers [name, " y "],
\* "rename" ["z", 7], "flag" [name, true], "triple" [name, " y ", "z"],
\* "single" [name], "noname" ["", "y"], "object" [name, {}], and "junk"
\* answers nothing.
CallOnAttribute(hook, name) ==
    CASE hook = "value" -> JsArray(<<JsString(name), JsString(<<SPACE, "y", SPACE>>)>>)
      [] hook = "rename" -> JsArray(<<JsString(<<"z">>), JsNumber7>>)
      [] hook = "flag" -> JsArray(<<JsString(name), JsTrue>>)
      [] hook = "triple" ->
            JsArray(<<JsString(name), JsString(<<SPACE, "y", SPACE>>), JsString(<<"z">>)>>)
      [] hook = "single" -> JsArray(<<JsString(name)>>)
      [] hook = "noname" -> JsArray(<<JsString(<<>>), JsString(<<"y">>)>>)
      [] hook = "object" -> JsArray(<<JsString(name), JsObject>>)
      [] OTHER -> JsUndefined



\* Array.isArray(attr) && typeof attr[0] === "string" && attr[0].length &&
\* (typeof attr[1] === "string" || ... "number" || ... "boolean")
IsAttributePair(attr) ==
    /\ attr.isArray
    /\ Len(attr.items) >= 1
    /\ attr.items[1].type = "string"
    /\ Len(attr.items[1].v) > 0
    /\ Len(attr.items) >= 2
    /\ attr.items[2].type \in {"string", "number", "boolean"}

\* the hook that is left out while the scan is in raw-text mode
CallOnSnapshot_NotInRawText(s, o, char) ==
    IF o.onSnapshot = Undefined \/ s.rmode THEN s
    ELSE [s EXCEPT !.snapshots = Append(@,
            [currentChar |-> char, attributesBuffer |-> s.abuf,
             characterBuffer |-> s.cbuf, gate |-> s.gate,
             openTag |-> s.nodes[s.node].tagName, openNodeType |-> s.ntype,
             openTagType |-> s.ttype, rawTextMode |-> s.rmode,
             rawTextBuffer |-> s.rmbuf])]

\* if (options.onSnapshot) options.onSnapshot({currentChar: char, ...}): the
\* hook is handed a new object of strings and booleans, and answers nothing
CallOnSnapshot(s, o, char) ==
    IF o.onSnapshot = Undefined THEN s
    ELSE [s EXCEPT !.snapshots = Append(@,
            [currentChar |-> char, attributesBuffer |-> s.abuf,
             characterBuffer |-> s.cbuf, gate |-> s.gate,
             openTag |-> s.nodes[s.node].tagName, openNodeType |-> s.ntype,
             openTagType |-> s.ttype, rawTextMode |-> s.rmode,
             rawTextBuffer |-> s.rmbuf])]

-----------------------------------------------------------------------------
(* The tree model (virty's Node), as far as parse uses it *)

\* new Node({type: ELEMENT, tagName, attributes, isSelfClosing})
ElementNode(tagName, attributes, isSelfClosing) ==
    [type |-> ELEMENT, tagName |-> tagName, attributes |-> attributes,
     isSelfClosing |-> isSelfClosing, value |-> <<>>, parent |-> 0, children |-> <<>>]

\* new Node({type: TEXT, value})
TextNode(value) ==
    [type |-> TEXT, tagName |-> <<>>, attributes |-> <<>>, isSelfClosing |-> FALSE,
     value |-> value, parent |-> 0, children |-> <<>>]

\* new Node({type: COMMENT, value}): the value is trimmed, and wrapped in
\* <!-- --> unless it already has that form.
CommentNode(value) ==
    LET iv == trim(value)
        ivl == Len(iv)
        formed == ivl >= 4 /\ iv[1] = LT_SIGN /\ iv[2] = BANG /\ iv[3] = DASH /\ iv[4] = DASH
                  /\ iv[ivl - 2] = DASH /\ iv[ivl - 1] = DASH /\ iv[ivl] = GT_SIGN
        v == IF ivl > 0 /\ ~formed
             THEN <<LT_SIGN, BANG, DASH, DASH>> \o iv \o <<DASH, DASH, GT_SIGN>>
             ELSE iv
    IN [type |-> COMMENT, tagName |-> <<>>, attributes |-> <<>>, isSelfClosing |-> FALSE,
        value |-> v, parent |-> 0, children |-> <<>>]

\* appendChild that pushes the child and leaves its parent reference unset
appendChild_WithoutParent(ns, p, c) ==
    IF ns[p].type # ELEMENT
    THEN Append(ns, c)
    ELSE Append([ns EXCEPT ![p].children = Append(@, Len(ns) + 1)], c)

\* appendChild that makes the child the only child
appendChild_ReplacesChildren(ns, p, c) ==
    IF ns[p].type # ELEMENT
    THEN Append(ns, c)
    ELSE LET k == Len(ns) + 1
         IN Append([ns EXCEPT ![p].children = <<k>>], [c EXCEPT !.parent = p])

\* appendChild that puts the child first (unshift for push)
appendChild_First(ns, p, c) ==
    IF ns[p].type # ELEMENT
    THEN Append(ns, c)
    ELSE LET k == Len(ns) + 1
         IN Append([ns EXCEPT ![p].children = <<k>> \o @], [c EXCEPT !.parent = p])

\* p.appendChild(c) for a node c just created: c joins the arena; it becomes
\* the last child of p when p is an element, and stays detached otherwise.
appendChild(ns, p, c) ==
    IF ns[p].type # ELEMENT
    THEN Append(ns, c)
    ELSE LET k == Len(ns) + 1
         IN Append([ns EXCEPT ![p].children = Append(@, k)], [c EXCEPT !.parent = p])

\* obj[key] = value on the attributes object (own string keys keep insertion order)
SetAttribute(attributes, key, value) ==
    IF \E i \in 1..Len(attributes) : attributes[i][1] = key
    THEN [i \in 1..Len(attributes) |->
            IF attributes[i][1] = key THEN <<key, value>> ELSE attributes[i]]
    ELSE Append(attributes, <<key, value>>)

EmptyNbuf == [hasTagName |-> FALSE, tagName |-> <<>>, attributes |-> <<>>]

-----------------------------------------------------------------------------
(* The scan.  A handler takes the loop's variables as a record s, the       *)
(* options o and the character, and answers the variables after the pass    *)
(* of the loop body for that character.                                     *)

\* a throw that is swallowed: the error is noted and the scan goes on
Throw_Swallowed(s, e) == [s EXCEPT !.err = e, !.last = "throw"]

Throw(s, e) == [s EXCEPT !.pc = "thrown", !.err = e, !.last = "throw"]



\* throw new UnexpectedTokenError(char, i + 1), throw new UnmatchedClosingTag(i + 1)
ThrowAt(s, e) == [Throw(s, e) EXCEPT !.at = s.i + 1]

\* if (!ntype) ntype = TEXT; cbuf = `${cbuf}${char}`
AppendChar(s, char) ==
    [s EXCEPT !.ntype = IF s.ntype = Undefined THEN TEXT ELSE s.ntype,
              !.cbuf = Append(s.cbuf, char),
              !.last = "append"]

\* if (options.trimAttributes) cbuf = cbuf.trim()
\* if (options.truncateAttributes) cbuf = truncateWhitespace(cbuf)
AttributeValue(o, value) ==
    LET v1 == IF o.trimAttributes THEN trim(value) ELSE value
    IN IF o.truncateAttributes THEN truncateWhitespace(v1, FALSE) ELSE v1

\* nbuf.tagName = options.htmlMode ? cbuf.toLowerCase() : cbuf
CaptureTagName(o, name) == IF o.htmlMode THEN toLowerCase(name) ELSE name

\* the tag name captured when "/" directly follows it: nbuf.tagName = cbuf
CaptureTagNameAtSlash(o, name) == name

(* ---- raw text mode ---- *)

\* rmbuf after a character of raw text that does not end the mode
RawEndBuffer(buf, tagName, char) ==
    CASE char = LT_SIGN -> <<LT_SIGN>>
      [] char = F_SLASH -> IF buf = <<LT_SIGN>> THEN <<LT_SIGN, F_SLASH>> ELSE <<>>
      [] char = GT_SIGN -> <<>>
      [] OTHER ->
            IF Len(buf) >= 2
            THEN IF Len(buf) - 1 <= Len(tagName) /\ tagName[Len(buf) - 1] = char
                 THEN Append(buf, char)
                 ELSE <<>>
            ELSE buf

\* rmbuf.length - 2 === node.tagName.length
RawEndMatched(buf, tagName) == Len(buf) - 2 = Len(tagName)

\* cbuf.substring(0, cbuf.length - (node.tagName.length + 2))
RawTextValue(buf, tagName) == Substring0(buf, Len(buf) - (Len(tagName) + 2))

\* the end of raw-text mode that goes back to the root
OnRawText_LeavesToRoot(s, o, char) ==
    LET tagName == s.nodes[s.node].tagName
    IN IF char = GT_SIGN /\ RawEndMatched(s.rmbuf, tagName)
       THEN [s EXCEPT !.nodes = appendChild(s.nodes, s.node, TextNode(RawTextValue(s.cbuf, tagName))),
                      !.node = 1,
                      !.rmode = FALSE,
                      !.rmbuf = <<>>,
                      !.cbuf = <<>>,
                      !.last = "raw:end"]
       ELSE [s EXCEPT !.rmbuf = RawEndBuffer(s.rmbuf, tagName, char),
                      !.cbuf = Append(s.cbuf, char),
                      !.last = "raw"]

\* the end of raw-text mode that leaves the raw-text element open
OnRawText_StaysOpen(s, o, char) ==
    LET tagName == s.nodes[s.node].tagName
    IN IF char = GT_SIGN /\ RawEndMatched(s.rmbuf, tagName)
       THEN [s EXCEPT !.nodes = appendChild(s.nodes, s.node, TextNode(RawTextValue(s.cbuf, tagName))),
                      !.rmode = FALSE,
                      !.rmbuf = <<>>,
                      !.cbuf = <<>>,
                      !.last = "raw:end"]
       ELSE [s EXCEPT !.rmbuf = RawEndBuffer(s.rmbuf, tagName, char),
                      !.cbuf = Append(s.cbuf, char),
                      !.last = "raw"]

OnRawText(s, o, char) ==
    LET tagName == s.nodes[s.node].tagName
    IN IF char = GT_SIGN /\ RawEndMatched(s.rmbuf, tagName)
       THEN [s EXCEPT !.nodes = appendChild(s.nodes, s.node, TextNode(RawTextValue(s.cbuf, tagName))),
                      !.node = s.nodes[s.node].parent,
                      !.rmode = FALSE,
                      !.rmbuf = <<>>,
                      !.cbuf = <<>>,
                      !.last = "raw:end"]
       ELSE [s EXCEPT !.rmbuf = RawEndBuffer(s.rmbuf, tagName, char),
                      !.cbuf = Append(s.cbuf, char),
                      !.last = "raw"]

(* ---- "<" ---- *)

\* the throws of the "<" branch without the exception for quoted values
LtUnexpected_AlsoInQuotes(s) ==
    \/ s.ttype = SC_TAG
    \/ s.ntype = ELEMENT

\* the two throws that open the "<" branch
LtUnexpected(s) ==
    \/ s.ttype = SC_TAG
    \/ s.ntype = ELEMENT /\ s.gate # SQ_A_VAL /\ s.gate # DQ_A_VAL

\* options.ignoreEmptyText && !cbuf.trim().length
IgnoredAtLt(o, text) == o.ignoreEmptyText /\ Len(trim(text)) = 0

\* options.ignoreEmptyText && !cbuf.length
IgnoredAtEnd(o, text) == o.ignoreEmptyText /\ Len(text) = 0

\* the text options applied in the other order (collapse, then trim)
TextValue_TruncateFirst(o, text) ==
    LET v1 == IF o.truncateText THEN truncateWhitespace(text, FALSE) ELSE text
    IN IF o.trimText THEN trim(v1) ELSE v1

\* if (options.trimText) cbuf = cbuf.trim()
\* if (options.truncateText) cbuf = truncateWhitespace(cbuf)
TextValue(o, text) ==
    LET v1 == IF o.trimText THEN trim(text) ELSE text
    IN IF o.truncateText THEN truncateWhitespace(v1, FALSE) ELSE v1

\* the flush at "<" that hands the hook the text after trimText
FlushTextAtLt_TrimFirst(s, o) ==
    LET given == IF o.trimText THEN trim(s.cbuf) ELSE s.cbuf
        hooked == IF o.onText # Undefined
                  THEN CallOnText(o.onText, given)
                  ELSE [isString |-> TRUE, value |-> given]
        s1 == [s EXCEPT !.ntype = ELEMENT, !.gate = TAG_NAME,
                        !.hooks = IF o.onText # Undefined
                                  THEN Append(@, <<"onText", given>>) ELSE @]
        text == IF o.truncateText THEN truncateWhitespace(hooked.value, FALSE)
                ELSE hooked.value
    IN IF ~hooked.isString
       THEN [s1 EXCEPT !.pc = "thrown", !.err = OnTextTypeError, !.last = "throw"]
       ELSE IF o.ignoreEmptyText /\ Len(trim(text)) = 0
       THEN [s1 EXCEPT !.cbuf = <<>>, !.last = "lt:drop"]
       ELSE [s1 EXCEPT !.nodes = appendChild(s.nodes, s.node, TextNode(text)),
                       !.cbuf = <<>>,
                       !.last = "lt:text"]

\* the text node is finalized when "<" follows text
FlushTextAtLt(s, o) ==
    LET hooked == IF o.onText # Undefined
                  THEN CallOnText(o.onText, s.cbuf)
                  ELSE [isString |-> TRUE, value |-> s.cbuf]
        s1 == [s EXCEPT !.ntype = ELEMENT, !.gate = TAG_NAME,
                        !.hooks = IF o.onText # Undefined
                                  THEN Append(@, <<"onText", s.cbuf>>) ELSE @]
        text == TextValue(o, hooked.value)
    IN IF ~hooked.isString
       THEN Throw(s1, OnTextTypeError)
       ELSE IF IgnoredAtLt(o, text)
       THEN [s1 EXCEPT !.cbuf = <<>>, !.last = "lt:drop"]
       ELSE [s1 EXCEPT !.nodes = appendChild(s.nodes, s.node, TextNode(text)),
                       !.cbuf = <<>>,
                       !.last = "lt:text"]

OnLt(s, o, char) ==
    IF LtUnexpected(s)
    THEN ThrowAt(s, UnexpectedTokenError)
    ELSE IF s.ntype = Undefined
    THEN [s EXCEPT !.ntype = ELEMENT, !.gate = TAG_NAME, !.last = "lt:open"]
    ELSE IF s.ntype = TEXT
    THEN FlushTextAtLt(s, o)
    ELSE AppendChar(s, char)

(* ---- ">" ---- *)

\* the commit at ">" that forgets a name left waiting by whitespace
CommitAtGt_WithoutPending(s, o) ==
    CASE s.gate = TAG_NAME ->
            [s EXCEPT !.nbuf.tagName = CaptureTagName(o, s.cbuf), !.nbuf.hasTagName = TRUE]
      [] s.gate = ATT_NAME ->
            [s EXCEPT !.nbuf.attributes = SetAttribute(@, s.cbuf, <<>>)]
      [] s.gate = NQ_A_VAL ->
            [s EXCEPT !.nbuf.attributes = SetAttribute(@, s.abuf, AttributeValue(o, s.cbuf)),
                      !.cbuf = AttributeValue(o, s.cbuf),
                      !.abuf = <<>>]
      [] OTHER -> s

\* the pending gate is committed to nbuf when ">" ends an element tag
CommitAtGt(s, o) ==
    CASE s.gate = TAG_NAME ->
            [s EXCEPT !.nbuf.tagName = CaptureTagName(o, s.cbuf), !.nbuf.hasTagName = TRUE]
      [] s.gate = ATT_NAME ->
            IF o.onAttribute # Undefined
            THEN LET attr == CallOnAttribute(o.onAttribute, s.cbuf)
                     called == [s EXCEPT !.hooks = Append(@, <<"onAttribute", s.cbuf>>)]
                 IN IF IsAttributePair(attr)
                    THEN [called EXCEPT !.nbuf.attributes =
                            SetAttribute(@, attr.items[1].v,
                                IF attr.items[2].type = "string"
                                THEN AttributeValue(o, attr.items[2].v)
                                ELSE attr.items[2].v)]
                    ELSE called
            ELSE [s EXCEPT !.nbuf.attributes = SetAttribute(@, s.cbuf, <<>>)]
      [] s.gate = NQ_A_VAL ->
            [s EXCEPT !.nbuf.attributes = SetAttribute(@, s.abuf, AttributeValue(o, s.cbuf)),
                      !.cbuf = AttributeValue(o, s.cbuf),
                      !.abuf = <<>>]
      [] s.gate = Undefined /\ s.abuf # <<>> ->
            [s EXCEPT !.nbuf.attributes = SetAttribute(@, s.abuf, <<>>), !.abuf = <<>>]
      [] OTHER -> s

\* the tag type when the void list is never consulted
VoidTagType_Unset(s, o) == s.ttype

\* if (options.voidElements[nbuf.tagName] && !options.rawTextElements[nbuf.tagName]) ttype = SC_TAG
VoidTagType(s, o) ==
    IF s.nbuf.tagName \in o.voidElements /\ s.nbuf.tagName \notin o.rawTextElements
    THEN SC_TAG
    ELSE s.ttype

\* the raw-text test that gives way to voidElements
IsRawTextElement_UnlessVoid(o, tagName) ==
    tagName \in o.rawTextElements /\ tagName \notin o.voidElements

\* options.rawTextElements[nbuf.tagName]
IsRawTextElement(o, tagName) == tagName \in o.rawTextElements

\* the test that accepts the open node's own name only
ClosingTagMismatch_OwnNameOnly(s) == s.nodes[s.node].tagName # s.nbuf.tagName

\* node.tagName !== nbuf.tagName && node.parent.tagName !== nbuf.tagName
ClosingTagMismatch(s) ==
    /\ s.nodes[s.node].tagName # s.nbuf.tagName
    /\ s.nodes[s.nodes[s.node].parent].tagName # s.nbuf.tagName

\* the reset after a tag that leaves the gate as it was
ResetTag_KeepsGate(s) ==
    [s EXCEPT !.cbuf = <<>>, !.nbuf = EmptyNbuf, !.ntype = Undefined, !.ttype = Undefined]

\* cbuf = "", nbuf = {}, gate = ntype = ttype = undefined
ResetTag(s) ==
    [s EXCEPT !.cbuf = <<>>, !.nbuf = EmptyNbuf, !.gate = Undefined,
              !.ntype = Undefined, !.ttype = Undefined]

\* ">" outside a quoted value while an element tag is open
CloseElementTag(s, o) ==
    LET s1 == CommitAtGt(s, o)
        s2 == [s1 EXCEPT !.ttype = VoidTagType(s1, o)]
        k == Len(s2.nodes) + 1
    IN IF IsRawTextElement(o, s2.nbuf.tagName)
       THEN ResetTag([s2 EXCEPT
                !.rmode = TRUE,
                !.nodes = appendChild(s2.nodes, s2.node,
                                      ElementNode(s2.nbuf.tagName, s2.nbuf.attributes, FALSE)),
                !.node = k,
                !.last = "gt:raw"])
       ELSE IF s2.ttype = CL_TAG
       THEN IF s2.node = 1
            THEN ThrowAt(s2, UnmatchedClosingTag)
            ELSE IF ClosingTagMismatch(s2)
            THEN ThrowAt(s2, UnmatchedClosingTag)
            ELSE ResetTag([s2 EXCEPT !.node = s2.nodes[s2.node].parent, !.last = "gt:close"])
       ELSE ResetTag([s2 EXCEPT
                !.nodes = appendChild(s2.nodes, s2.node,
                                      ElementNode(s2.nbuf.tagName, s2.nbuf.attributes,
                                                  s2.ttype = SC_TAG)),
                !.node = IF s2.ttype # SC_TAG THEN k ELSE s2.node,
                !.last = "gt:element"])

\* a comment that ends at the first ">" that follows a single dash
EndsWithDashes_Single(buf) == Len(buf) >= 1 /\ buf[Len(buf)] = DASH

\* cbuf[cbuf.length - 2] === DASH && cbuf[cbuf.length - 1] === DASH
EndsWithDashes(buf) == Len(buf) >= 2 /\ buf[Len(buf) - 1] = DASH /\ buf[Len(buf)] = DASH

OnGt(s, o, char) ==
    IF s.ntype = ELEMENT /\ s.gate # SQ_A_VAL /\ s.gate # DQ_A_VAL
    THEN CloseElementTag(s, o)
    ELSE IF s.ntype = COMMENT /\ EndsWithDashes(s.cbuf)
    THEN [s EXCEPT !.nodes = appendChild(s.nodes, s.node, CommentNode(Append(s.cbuf, char))),
                   !.cbuf = <<>>,
                   !.ntype = Undefined,
                   !.last = "gt:comment"]
    ELSE AppendChar(s, char)

(* ---- whitespace ---- *)

\* whitespace that is skipped wherever it is met
OnWhitespace_Skips(s, o, char) == [s EXCEPT !.last = "ws:skip"]

OnWhitespace(s, o, char) ==
    IF s.ntype = ELEMENT /\ s.gate = Undefined
    THEN [s EXCEPT !.last = "ws:skip"]
    ELSE IF s.ntype = ELEMENT /\ s.gate # SQ_A_VAL /\ s.gate # DQ_A_VAL
    THEN IF s.cbuf = <<>>
         THEN [s EXCEPT !.last = "ws:skip"]
         ELSE CASE s.gate = TAG_NAME ->
                    [s EXCEPT !.nbuf.tagName = CaptureTagName(o, s.cbuf),
                              !.nbuf.hasTagName = TRUE,
                              !.cbuf = <<>>, !.gate = Undefined, !.last = "ws:name"]
                [] s.gate = ATT_NAME ->
                    [s EXCEPT !.abuf = s.cbuf, !.cbuf = <<>>, !.gate = Undefined,
                              !.last = "ws:attribute"]
                [] s.gate = NQ_A_VAL ->
                    [s EXCEPT !.nbuf.attributes =
                                    SetAttribute(@, s.abuf, AttributeValue(o, s.cbuf)),
                              !.abuf = <<>>, !.cbuf = <<>>, !.gate = Undefined,
                              !.last = "ws:value"]
                [] OTHER -> [s EXCEPT !.last = "ws:skip"]
    ELSE AppendChar(s, char)

(* ---- "/" ---- *)

OnSlash(s, o, char) ==
    IF s.ttype = SC_TAG
    THEN ThrowAt(s, UnexpectedTokenError)
    ELSE IF s.ntype = ELEMENT /\ s.gate = TAG_NAME
    THEN IF s.cbuf # <<>>
         THEN [s EXCEPT !.ttype = SC_TAG,
                        !.nbuf.tagName = CaptureTagNameAtSlash(o, s.cbuf),
                        !.nbuf.hasTagName = TRUE,
                        !.cbuf = <<>>, !.gate = Undefined, !.last = "slash:name"]
         ELSE [s EXCEPT !.ttype = CL_TAG, !.last = "slash:closing"]
    ELSE IF s.ntype = ELEMENT /\ s.gate = NQ_A_VAL
    THEN [s EXCEPT !.ttype = SC_TAG,
                   !.nbuf.attributes = SetAttribute(@, s.abuf, AttributeValue(o, s.cbuf)),
                   !.abuf = <<>>, !.cbuf = <<>>, !.gate = Undefined, !.last = "slash:value"]
    ELSE IF s.ntype = ELEMENT /\ s.gate = Undefined
    THEN [s EXCEPT !.ttype = SC_TAG, !.last = "slash:self"]
    ELSE AppendChar(s, char)

(* ---- "=" ---- *)

OnEq(s, o, char) ==
    IF s.gate = ATT_NAME
    THEN [s EXCEPT !.abuf = s.cbuf, !.cbuf = <<EQ_SIGN>>, !.gate = Undefined, !.last = "eq"]
    ELSE AppendChar(s, char)

(* ---- the quote that matches the open quoted value ---- *)

\* a quote of either kind ends a quoted value
QuoteCloses_EitherQuote(s, char) ==
    /\ char \in {S_QUOTE, D_QUOTE}
    /\ s.gate \in {SQ_A_VAL, DQ_A_VAL}

QuoteCloses(s, char) ==
    \/ char = S_QUOTE /\ s.gate = SQ_A_VAL
    \/ char = D_QUOTE /\ s.gate = DQ_A_VAL

OnQuote(s, o, char) ==
    [s EXCEPT !.nbuf.attributes = SetAttribute(@, s.abuf, AttributeValue(o, s.cbuf)),
              !.abuf = <<>>, !.cbuf = <<>>, !.gate = Undefined, !.last = "quote"]

(* ---- any other character ---- *)

\* cbuf[0] === BANG && cbuf[1] === DASH && char === DASH
StartsComment(buf, char) ==
    Len(buf) >= 2 /\ buf[1] = BANG /\ buf[2] = DASH /\ char = DASH

OnOther(s, o, char) ==
    IF s.ntype # ELEMENT
    THEN AppendChar(s, char)
    ELSE IF s.gate = TAG_NAME
    THEN IF StartsComment(s.cbuf, char)
         THEN [s EXCEPT !.cbuf = <<LT_SIGN, BANG, DASH, DASH>>, !.gate = Undefined,
                        !.ntype = COMMENT, !.last = "comment:open"]
         ELSE AppendChar(s, char)
    ELSE IF s.gate = Undefined
    THEN IF s.abuf # <<>>
         THEN IF s.cbuf = <<EQ_SIGN>>
              THEN IF char = S_QUOTE \/ char = D_QUOTE
                   THEN [s EXCEPT !.cbuf = <<>>,
                                  !.gate = IF char = S_QUOTE THEN SQ_A_VAL ELSE DQ_A_VAL,
                                  !.last = "value:quoted"]
                   ELSE [s EXCEPT !.cbuf = <<char>>, !.gate = NQ_A_VAL, !.last = "value:bare"]
              ELSE IF s.cbuf = <<>>
              THEN AppendChar([s EXCEPT !.nbuf.attributes = SetAttribute(@, s.abuf, <<>>),
                                        !.abuf = <<>>, !.gate = ATT_NAME], char)
              ELSE AppendChar(s, char)
         ELSE IF s.nbuf.hasTagName /\ s.nbuf.tagName # <<>>
         THEN AppendChar([s EXCEPT !.gate = ATT_NAME], char)
         ELSE AppendChar(s, char)
    ELSE AppendChar(s, char)

(* ---- end of input ---- *)

\* the end of input that flushes whatever is buffered outside a tag as text
OnEnd_FlushesOutsideTags(s, o) ==
    IF s.cbuf = <<>>
    THEN [s EXCEPT !.pc = "returned", !.last = "end"]
    ELSE IF s.ntype # ELEMENT /\ s.ntype # COMMENT
    THEN LET hooked == IF o.onText # Undefined
                       THEN CallOnText(o.onText, s.cbuf)
                       ELSE [isString |-> TRUE, value |-> s.cbuf]
             text == TextValue(o, hooked.value)
             s1 == [s EXCEPT !.hooks = IF o.onText # Undefined
                                       THEN Append(@, <<"onText", s.cbuf>>) ELSE @]
         IN IF ~hooked.isString
            THEN Throw(s1, OnTextTypeError)
            ELSE IF IgnoredAtEnd(o, text)
            THEN [s1 EXCEPT !.cbuf = text, !.pc = "returned", !.last = "end:drop"]
            ELSE [s1 EXCEPT !.nodes = appendChild(s.nodes, s.node, TextNode(text)),
                            !.cbuf = text, !.pc = "returned", !.last = "end:text"]
    ELSE Throw(s, UnexpectedEndOfInput)

\* the end of input that returns without flushing the text
OnEnd_DropsText(s, o) == [s EXCEPT !.pc = "returned", !.last = "end"]

OnEnd(s, o) ==
    IF s.cbuf = <<>>
    THEN [s EXCEPT !.pc = "returned", !.last = "end"]
    ELSE IF s.ntype = TEXT
    THEN LET hooked == IF o.onText # Undefined
                       THEN CallOnText(o.onText, s.cbuf)
                       ELSE [isString |-> TRUE, value |-> s.cbuf]
             text == TextValue(o, hooked.value)
             s1 == [s EXCEPT !.hooks = IF o.onText # Undefined
                                       THEN Append(@, <<"onText", s.cbuf>>) ELSE @]
         IN IF ~hooked.isString
            THEN Throw(s1, OnTextTypeError)
            ELSE IF IgnoredAtEnd(o, text)
            THEN [s1 EXCEPT !.cbuf = text, !.pc = "returned", !.last = "end:drop"]
            ELSE [s1 EXCEPT !.nodes = appendChild(s.nodes, s.node, TextNode(text)),
                            !.cbuf = text, !.pc = "returned", !.last = "end:text"]
    ELSE Throw(s, UnexpectedEndOfInput)

(* ---- the loop as a whole ---- *)

\* the loop dependents before the first pass
Fresh ==
    [nodes |-> <<ElementNode(ROOT, <<>>, FALSE)>>, node |-> 1, nbuf |-> EmptyNbuf,
     abuf |-> <<>>, cbuf |-> <<>>, gate |-> Undefined, ntype |-> Undefined,
     ttype |-> Undefined, rmode |-> FALSE, rmbuf |-> <<>>, pc |-> "scan",
     err |-> "none", at |-> 0, i |-> 0, hooks |-> <<>>, snapshots |-> <<>>,
     last |-> "start"]

\* one pass of the loop body: the snapshot, then the branch the character selects
ScanChar(s0, o, char) ==
    LET s == CallOnSnapshot(s0, o, char)
    IN IF s.rmode THEN OnRawText(s, o, char)
       ELSE IF char = LT_SIGN THEN OnLt(s, o, char)
       ELSE IF char = GT_SIGN THEN OnGt(s, o, char)
       ELSE IF isWhitespace(char, FALSE) THEN OnWhitespace(s, o, char)
       ELSE IF char = F_SLASH THEN OnSlash(s, o, char)
       ELSE IF char = EQ_SIGN THEN OnEq(s, o, char)
       ELSE IF QuoteCloses(s, char) THEN OnQuote(s, o, char)
       ELSE OnOther(s, o, char)

\* the loop over the characters of input, left by a throw
RECURSIVE ScanFrom(_, _, _)
ScanFrom(s, o, input) ==
    IF input = <<>> \/ s.pc # "scan" THEN s
    ELSE ScanFrom([ScanChar(s, o, Head(input)) EXCEPT !.i = @ + 1], o, Tail(input))

\* parse(input, o) for a trimmed input and normalised options
ParseOf(o, input) ==
    LET s == ScanFrom(Fresh, o, input)
    IN IF s.pc = "scan" THEN OnEnd(s, o) ELSE s

-----------------------------------------------------------------------------
(* The inputs.  The caller's data reaches the scan piece by piece: a piece  *)
(* is one character, or a run of characters (a tag, a text run) that lets   *)
(* a bounded input reach deeper nesting.  data is the input after           *)
(* data.trim(): it neither starts nor ends with a character trim strips.    *)

Alphabet == {LT_SIGN, GT_SIGN, F_SLASH, EQ_SIGN, D_QUOTE, BANG, DASH, SPACE, "a", "A"}

\* pieces that may only start an input of the character profile
Prefixes == { <<LT_SIGN, "a", SPACE, "b", EQ_SIGN>>, <<LT_SIGN, "a", GT_SIGN>> }

\* the pieces of the document profile
OpenA == <<LT_SIGN, "a", GT_SIGN>>
OpenB == <<LT_SIGN, "b", GT_SIGN>>
OpenAWithAttribute == <<LT_SIGN, "a", SPACE, "c", EQ_SIGN, S_QUOTE, "d", S_QUOTE, GT_SIGN>>
CloseA == <<LT_SIGN, F_SLASH, "a", GT_SIGN>>
CloseB == <<LT_SIGN, F_SLASH, "b", GT_SIGN>>
SelfClosingB == <<LT_SIGN, "b", F_SLASH, GT_SIGN>>
CommentC == <<LT_SIGN, BANG, DASH, DASH, "c", DASH, DASH, GT_SIGN>>
TextX == <<"x">>
TextSpace == <<SPACE>>
TextMarks == <<GT_SIGN, F_SLASH, EQ_SIGN, D_QUOTE, DASH>>

OpeningPieces == {OpenA, OpenB, OpenAWithAttribute}
ClosingPieces == {CloseA, CloseB}
TextPieces == {TextX, TextSpace, TextMarks}

\* the tag name an opening, closing or self-closing piece is written with
PieceName(k) == IF k \in {OpenB, CloseB, SelfClosingB} THEN Str1("b") ELSE Str1("a")

\* the names of the elements a sequence of pieces leaves open, innermost last
RECURSIVE OpenNames(_)
OpenNames(d) ==
    IF d = <<>> THEN <<>>
    ELSE LET before == OpenNames(SubSeq(d, 1, Len(d) - 1))
             k == d[Len(d)]
         IN IF k \in OpeningPieces THEN Append(before, PieceName(k))
            ELSE IF k \in ClosingPieces /\ before # <<>>
            THEN SubSeq(before, 1, Len(before) - 1)
            ELSE before

\* a document is written with balanced tags: a closing piece is offered only
\* for the innermost open element
DocumentPieces(d) ==
    OpeningPieces \cup {SelfClosingB, CommentC} \cup TextPieces
    \cup {k \in ClosingPieces :
            LET open == OpenNames(d) IN open # <<>> /\ open[Len(open)] = PieceName(k)}

\* the nesting profile: opening and closing tags in any order, balanced or not
OpenC == <<LT_SIGN, "c", GT_SIGN>>
CloseC == <<LT_SIGN, F_SLASH, "c", GT_SIGN>>
CloseASpaced == <<LT_SIGN, F_SLASH, "a", SPACE, GT_SIGN>>
CloseRoot == <<LT_SIGN, F_SLASH, "R", "O", "O", "T", GT_SIGN>>
RawS == <<LT_SIGN, "s", GT_SIGN, "x", LT_SIGN, F_SLASH, "s", GT_SIGN>>
NestClosingPieces == {CloseA, CloseB, CloseC, CloseASpaced, CloseRoot}
NestPieces ==
    {OpenA, OpenB, OpenC, OpenAWithAttribute, TextX, RawS} \cup NestClosingPieces

\* the raw-text profile: an opening tag, then single characters
RawPrefixes == { OpenA, OpenAWithAttribute }
RawAlphabet == {LT_SIGN, F_SLASH, GT_SIGN, SPACE, "a", "x"}

\* the text profile: text characters between a few tags
TextProfilePieces ==
    { OpenA, CloseA, <<LT_SIGN, "b", SPACE, "c", EQ_SIGN, D_QUOTE, D_QUOTE, F_SLASH, GT_SIGN>>,
      TextX, TextSpace, <<NEXT_LINE>> }

\* the comment profile: something that ends in "<!--" in tag-start position,
\* then single characters
CommentOpen == <<LT_SIGN, BANG, DASH, DASH>>
CommentAfterSlash == <<LT_SIGN, F_SLASH, BANG, DASH, DASH>>
CommentPrefixes ==
    { CommentOpen,
      TextX \o CommentOpen,
      <<LT_SIGN, "a", SPACE, "c", EQ_SIGN, D_QUOTE, "d", D_QUOTE, GT_SIGN>> \o CommentOpen,
      <<LT_SIGN, "s", GT_SIGN, LT_SIGN, F_SLASH, "s", GT_SIGN>> \o CommentOpen,
      CommentAfterSlash }
CommentAlphabet == {LT_SIGN, GT_SIGN, DASH, F_SLASH, EQ_SIGN, D_QUOTE, SPACE, "c"}

\* the tag profile: name-only tags written piece by piece, with whitespace
\* between the pieces of a tag; the input may start with one other element
TagNames == { Str1("a"), <<"A", "b">> }
TagBlanks == { Str1(SPACE), Str1(NEXT_LINE) }
TagPrefixes ==
    { <<LT_SIGN, "b", SPACE, "c", EQ_SIGN, D_QUOTE, "d", D_QUOTE, F_SLASH, GT_SIGN>>,
      <<LT_SIGN, "s", GT_SIGN, LT_SIGN, F_SLASH, "s", GT_SIGN>> }

\* the pieces of an input that are not whitespace between the pieces of a tag
RECURSIVE WithoutBlanks(_)
WithoutBlanks(d) ==
    IF d = <<>> THEN <<>>
    ELSE IF Head(d) \in TagBlanks THEN WithoutBlanks(Tail(d))
    ELSE <<Head(d)>> \o WithoutBlanks(Tail(d))

TagPieces(d) ==
    LET core == WithoutBlanks(d)
        n == Len(core)
        l == IF n = 0 THEN Str1(GT_SIGN) ELSE core[n]
        closing == n >= 2 /\ core[n - 1] = Str1(F_SLASH)
    IN CASE n = 0 -> TagPrefixes \cup {Str1(LT_SIGN)}
         [] n > 0 /\ (l = Str1(GT_SIGN) \/ l \in TagPrefixes) -> {Str1(LT_SIGN)}
         [] n > 0 /\ l = Str1(LT_SIGN) -> TagBlanks \cup {Str1(F_SLASH)} \cup TagNames
         [] n > 0 /\ l = Str1(F_SLASH) ->
                IF core[n - 1] = Str1(LT_SIGN)
                THEN TagBlanks \cup TagNames
                ELSE TagBlanks \cup {Str1(GT_SIGN)}
         [] n > 0 /\ l \in TagNames ->
                IF closing
                THEN TagBlanks \cup {Str1(GT_SIGN)}
                ELSE TagBlanks \cup {Str1(F_SLASH), Str1(GT_SIGN)}
         [] OTHER -> {}

\* the attribute profile: the start of a tag with an attribute name, then
\* single characters
AttributeBare == <<LT_SIGN, "a", SPACE, "b">>
AttributeAssigned == <<LT_SIGN, "a", SPACE, "b", EQ_SIGN>>
AttributeQuoted == <<LT_SIGN, "a", SPACE, "i", EQ_SIGN, D_QUOTE, "a", D_QUOTE>>
AttributeNone == <<LT_SIGN, "a">>
AttributePrefixes == { AttributeBare, AttributeAssigned, AttributeQuoted, AttributeNone }
AttributeAlphabet == {D_QUOTE, S_QUOTE, SPACE, NEXT_LINE, "x", F_SLASH, GT_SIGN}

\* the quoted-value profile: the start of a tag up to the quote that opens an
\* attribute value, then single characters
QuotedPrefixes ==
    { <<LT_SIGN, "a", SPACE, "b", EQ_SIGN, D_QUOTE>>,
      <<LT_SIGN, "a", SPACE, "b", EQ_SIGN, S_QUOTE>>,
      <<LT_SIGN, "a", F_SLASH, SPACE, "b", EQ_SIGN, D_QUOTE>>,
      <<LT_SIGN, "s", GT_SIGN, LT_SIGN, F_SLASH, "s", GT_SIGN,
        LT_SIGN, F_SLASH, "a", SPACE, "b", EQ_SIGN, S_QUOTE>> }
QuotedAlphabet == {LT_SIGN, GT_SIGN, F_SLASH, EQ_SIGN, D_QUOTE, S_QUOTE, SPACE, "x"}

\* the mixed profile: elements with an attribute, comments, a raw-text
\* element and text runs, with whitespace inside each of them
MixedPieces ==
    { <<LT_SIGN, "a", SPACE, "b", EQ_SIGN, D_QUOTE, SPACE, "c", D_QUOTE, GT_SIGN>>,
      CloseA,
      <<LT_SIGN, BANG, DASH, DASH, SPACE, "c", SPACE, DASH, DASH, GT_SIGN>>,
      <<LT_SIGN, "s", GT_SIGN, SPACE, LT_SIGN, F_SLASH, "s", GT_SIGN>>,
      TextX, TextSpace, <<NEXT_LINE>> }

PiecesAt(p, d) ==
    CASE p = "chars" -> {Str1(c) : c \in Alphabet} \cup (IF d = <<>> THEN Prefixes ELSE {})
      [] p = "document" -> DocumentPieces(d)
      [] p = "raw" -> IF d = <<>> THEN RawPrefixes ELSE {Str1(c) : c \in RawAlphabet}
      [] p = "text" -> TextProfilePieces
      [] p = "comment" -> IF d = <<>> THEN CommentPrefixes ELSE {Str1(c) : c \in CommentAlphabet}
      [] p = "tag" -> TagPieces(d)
      [] p = "mixed" -> MixedPieces
      [] p = "nesting" -> NestPieces
      [] p = "quoted" -> IF d = <<>> THEN QuotedPrefixes ELSE {Str1(c) : c \in QuotedAlphabet}
      [] p = "attribute" ->
            IF d = <<>> THEN AttributePrefixes ELSE {Str1(c) : c \in AttributeAlphabet}
      [] OTHER -> {}

Limit(p) ==
    CASE p = "chars" -> MaxLen
      [] p = "document" -> MaxPieces
      [] p = "raw" -> MaxRaw + 1
      [] p = "text" -> MaxText
      [] p = "comment" -> MaxComment + 1
      [] p = "tag" -> MaxTag
      [] p = "attribute" -> MaxAttribute + 1
      [] p = "mixed" -> MaxMixed
      [] p = "nesting" -> MaxNest
      [] p = "quoted" -> MaxQuoted + 1
      [] OTHER -> 0

\* the characters the scan may meet next, each with the input state it leaves
Offered ==
    IF feed # <<>>
    THEN {[char |-> Head(feed), feed |-> Tail(feed), doc |-> doc]}
    ELSE IF Len(doc) >= Limit(profile)
    THEN {}
    ELSE {[char |-> Head(k), feed |-> Tail(k), doc |-> Append(doc, k)] :
            k \in {x \in PiecesAt(profile, doc) : data = <<>> => ~JsTrimmed(Head(x))}}

\* for (let i = 0; i < data.length; i++) { const char = data[i] ...
Take(in) ==
    /\ feed' = in.feed
    /\ doc' = in.doc
    /\ data' = Append(data, in.char)

\* i === data.length: the input, a trimmed string, is exhausted
AtEnd == feed = <<>> /\ (IF data = <<>> THEN TRUE ELSE ~JsTrimmed(data[Len(data)]))

-----------------------------------------------------------------------------
(* The state machine *)

Cur ==
    [nodes |-> nodes, node |-> node, nbuf |-> nbuf, abuf |-> abuf, cbuf |-> cbuf,
     gate |-> gate, ntype |-> ntype, ttype |-> ttype, rmode |-> rmode, rmbuf |-> rmbuf,
     pc |-> pc, err |-> err, at |-> at, i |-> Len(data), hooks |-> hooks,
     snapshots |-> snapshots, last |-> last]

Install(r) ==
    /\ nodes' = r.nodes
    /\ node' = r.node
    /\ nbuf' = r.nbuf
    /\ abuf' = r.abuf
    /\ cbuf' = r.cbuf
    /\ gate' = r.gate
    /\ ntype' = r.ntype
    /\ ttype' = r.ttype
    /\ rmode' = r.rmode
    /\ rmbuf' = r.rmbuf
    /\ pc' = r.pc
    /\ err' = r.err
    /\ at' = r.at
    /\ hooks' = r.hooks
    /\ snapshots' = r.snapshots
    /\ last' = r.last

\* no call of truncateWhitespace on its own is under way
NoCall ==
    [pc |-> "none", string |-> <<>>, includeSymbols |-> FALSE, k |-> 1, n |-> <<>>,
     round |-> 0, given |-> <<>>, first |-> <<>>]

\* the state after `const root = new Node(...)` and the loop dependents
Prepared(o, p, l) ==
    /\ options = SetDefaults(o)
    /\ lead = l
    /\ profile = p
    /\ doc = <<>>
    /\ feed = <<>>
    /\ data = <<>>
    /\ nodes = <<ElementNode(ROOT, <<>>, FALSE)>>
    /\ node = 1
    /\ nbuf = EmptyNbuf
    /\ abuf = <<>>
    /\ cbuf = <<>>
    /\ gate = Undefined
    /\ ntype = Undefined
    /\ ttype = Undefined
    /\ rmode = FALSE
    /\ rmbuf = <<>>
    /\ pc = "scan"
    /\ err = "none"
    /\ at = 0
    /\ hooks = <<>>
    /\ snapshots = <<>>
    /\ last = "start"

\* a call of parse; no other call is under way
\* no options object is followed across calls
NoCalls == [given |-> Undefined, config |-> Undefined, input |-> <<>>, returned |-> <<>>]

StartAfter(o, p, l) ==
    /\ tw = NoCall
    /\ calls = NoCalls
    /\ Prepared(o, p, l)

CharOptions ==
    { DefaultOptions,
      [DefaultOptions EXCEPT !.rawTextElements = {Str1("a")}],
      [DefaultOptions EXCEPT !.voidElements = {Str1("a")}],
      [DefaultOptions EXCEPT !.htmlMode = TRUE, !.rawTextElements = {Str1("A")}],
      [DefaultOptions EXCEPT !.onText = "number", !.ignoreEmptyText = TRUE] }

DocumentOptions ==
    { DefaultOptions,
      [DefaultOptions EXCEPT !.rawTextElements = {Str1("b")}] }

RawOptions ==
    { [DefaultOptions EXCEPT !.rawTextElements = {Str1("a")}, !.ignoreEmptyText = i,
                             !.trimText = i, !.onSnapshot = h]
        : i \in BOOLEAN, h \in {Undefined, "trace"} }

TextOptions ==
    { [DefaultOptions EXCEPT !.trimText = tr, !.truncateText = tc, !.onText = h,
                             !.rawTextElements = r]
        : tr \in BOOLEAN, tc \in BOOLEAN, h \in {Undefined, "pad", "number"},
          r \in {{}, {Str1("a")}} }

CommentOptions ==
    { [DefaultOptions EXCEPT !.rawTextElements = {Str1("s")}, !.trimText = i] : i \in BOOLEAN }

TagOptions ==
    { [DefaultOptions EXCEPT !.rawTextElements = {Str1("s")}, !.htmlMode = h] : h \in BOOLEAN }

AttributeOptions ==
    { [DefaultOptions EXCEPT !.trimAttributes = tr, !.truncateAttributes = tc,
                             !.onAttribute = h[1], !.rawTextElements = h[2]]
        : tr \in BOOLEAN, tc \in BOOLEAN,
          h \in { <<Undefined, {}>>, <<"value", {}>>, <<Undefined, {Str1("a")}>> } }
    \cup
    { [DefaultOptions EXCEPT !.trimAttributes = t, !.truncateAttributes = t,
                             !.onAttribute = h]
        : t \in BOOLEAN,
          h \in {"rename", "flag", "triple", "single", "noname", "object", "junk"} }

MixedOptions ==
    { [DefaultOptions EXCEPT !.rawTextElements = {Str1("s")},
                             !.trimText = b[1], !.truncateText = b[2],
                             !.trimAttributes = b[3], !.truncateAttributes = b[4],
                             !.ignoreEmptyText = b[5]]
        : b \in BOOLEAN \X BOOLEAN \X BOOLEAN \X BOOLEAN \X BOOLEAN }

\* a call whose input has no whitespace before its first character
Start(o, p) == StartAfter(o, p, <<>>)

Init == \E o \in CharOptions : Start(o, "chars")

\* calls whose input starts with whitespace, which data.trim() takes off
Leads == {[k \in 1..n |-> SPACE] : n \in 0..MaxLead} \cup {<<LINE_FEED>>}

OffsetOptions == {DefaultOptions, [DefaultOptions EXCEPT !.rawTextElements = {Str1("a")}]}

InitOffset == \E o \in OffsetOptions, l \in Leads : StartAfter(o, "chars", l)

NestOptions ==
    { [DefaultOptions EXCEPT !.rawTextElements = {Str1("s")}, !.voidElements = v]
        : v \in {{}, {Str1("v")}, {Str1("s")}} }

InitNest == \E o \in NestOptions : Start(o, "nesting")

QuotedOptions ==
    { [DefaultOptions EXCEPT !.rawTextElements = {Str1("s")}, !.trimAttributes = t]
        : t \in BOOLEAN }

InitQuoted == \E o \in QuotedOptions : Start(o, "quoted")

InitDocument == \E o \in DocumentOptions : Start(o, "document")

InitRaw == \E o \in RawOptions : Start(o, "raw")

InitText == \E o \in TextOptions : Start(o, "text")

InitComment == \E o \in CommentOptions : Start(o, "comment")

InitTag == \E o \in TagOptions : Start(o, "tag")

InitAttribute == \E o \in AttributeOptions : Start(o, "attribute")

InitMixed == \E o \in MixedOptions : Start(o, "mixed")

\* the loop dependents once the hook has been handed the snapshot of this pass
Snapped(in) == CallOnSnapshot(Cur, options, in.char)

RawTextStep ==
    /\ pc = "scan" /\ rmode
    /\ \E in \in Offered : Take(in) /\ Install(OnRawText(Snapped(in), options, in.char))
    /\ UNCHANGED <<options, profile, lead, tw, calls>>

LtStep ==
    /\ pc = "scan" /\ ~rmode
    /\ \E in \in Offered :
        in.char = LT_SIGN /\ Take(in) /\ Install(OnLt(Snapped(in), options, in.char))
    /\ UNCHANGED <<options, profile, lead, tw, calls>>

GtStep ==
    /\ pc = "scan" /\ ~rmode
    /\ \E in \in Offered :
        in.char = GT_SIGN /\ Take(in) /\ Install(OnGt(Snapped(in), options, in.char))
    /\ UNCHANGED <<options, profile, lead, tw, calls>>

WhitespaceStep ==
    /\ pc = "scan" /\ ~rmode
    /\ \E in \in Offered :
        /\ in.char \notin {LT_SIGN, GT_SIGN}
        /\ isWhitespace(in.char, FALSE)
        /\ Take(in) /\ Install(OnWhitespace(Snapped(in), options, in.char))
    /\ UNCHANGED <<options, profile, lead, tw, calls>>

SlashStep ==
    /\ pc = "scan" /\ ~rmode
    /\ \E in \in Offered :
        /\ in.char = F_SLASH
        /\ Take(in) /\ Install(OnSlash(Snapped(in), options, in.char))
    /\ UNCHANGED <<options, profile, lead, tw, calls>>

EqStep ==
    /\ pc = "scan" /\ ~rmode
    /\ \E in \in Offered :
        /\ in.char = EQ_SIGN
        /\ Take(in) /\ Install(OnEq(Snapped(in), options, in.char))
    /\ UNCHANGED <<options, profile, lead, tw, calls>>

QuoteStep ==
    /\ pc = "scan" /\ ~rmode
    /\ \E in \in Offered :
        /\ QuoteCloses(Cur, in.char)
        /\ Take(in) /\ Install(OnQuote(Snapped(in), options, in.char))
    /\ UNCHANGED <<options, profile, lead, tw, calls>>

OtherStep ==
    /\ pc = "scan" /\ ~rmode
    /\ \E in \in Offered :
        /\ in.char \notin {LT_SIGN, GT_SIGN, F_SLASH, EQ_SIGN}
        /\ ~isWhitespace(in.char, FALSE)
        /\ ~QuoteCloses(Cur, in.char)
        /\ Take(in) /\ Install(OnOther(Snapped(in), options, in.char))
    /\ UNCHANGED <<options, profile, lead, tw, calls>>

EndOfInput ==
    /\ pc = "scan" /\ AtEnd
    /\ Install(OnEnd(Cur, options))
    /\ UNCHANGED <<options, profile, lead, doc, feed, data, tw, calls>>

Next ==
    \/ RawTextStep
    \/ LtStep
    \/ GtStep
    \/ WhitespaceStep
    \/ SlashStep
    \/ EqStep
    \/ QuoteStep
    \/ OtherStep
    \/ EndOfInput

Spec == Init /\ [][Next]_vars

SpecOffset == InitOffset /\ [][Next]_vars

(* ---- truncateWhitespace called on its own ---- *)

TruncateAlphabet == {"a", "b", SPACE, CHARACTER_TABULATION, NEXT_LINE, MIDDLE_DOT}

Strings == UNION {[1..len -> TruncateAlphabet] : len \in 0..MaxString}

\* truncateWhitespace(string, includeSymbols) is entered: let n = ""
Entered(string, includeSymbols, round, given, first) ==
    [pc |-> "loop", string |-> string, includeSymbols |-> includeSymbols, k |-> 1,
     n |-> <<>>, round |-> round, given |-> given, first |-> first]

InitTruncate ==
    /\ Prepared(DefaultOptions, "truncate", <<>>)
    /\ calls = NoCalls
    /\ \E string \in Strings, includeSymbols \in BOOLEAN :
            tw = Entered(string, includeSymbols, 1, string, <<>>)

\* one pass of for (let c of string)
TruncateLoop ==
    /\ tw.pc = "loop" /\ tw.k <= Len(tw.string)
    /\ tw' = [tw EXCEPT !.n = TruncateChar(tw.string, tw.includeSymbols, tw.k, tw.n),
                        !.k = @ + 1]
    /\ UNCHANGED <<parseVars, calls>>

\* return n
TruncateReturn ==
    /\ tw.pc = "loop" /\ tw.k > Len(tw.string)
    /\ tw' = [tw EXCEPT !.pc = "returned"]
    /\ UNCHANGED <<parseVars, calls>>

\* the caller hands the result to truncateWhitespace again
TruncateAgain ==
    /\ tw.pc = "returned" /\ tw.round = 1
    /\ tw' = Entered(tw.n, tw.includeSymbols, 2, tw.given, tw.n)
    /\ UNCHANGED <<parseVars, calls>>

NextTruncate ==
    \/ TruncateLoop
    \/ TruncateReturn
    \/ TruncateAgain

SpecTruncate == InitTruncate /\ [][NextTruncate]_vars

(* ---- parse called repeatedly with one options object ---- *)

\* a list option as the caller's object holds it: the array the caller
\* wrote, or the hash a call of parse put in its place
JsList(names) == [isArray |-> TRUE, names |-> names]
JsHash(keys) == [isArray |-> FALSE, names |-> keys]

\* if (!Array.isArray(options.rawTextElements)) options.rawTextElements = []
ArrayOrEmpty(list) == IF list.isArray THEN list.names ELSE {}

\* the options object once parse has set its defaults on it, in place
SetDefaultsInPlace(config) ==
    LET o == SetDefaults([config EXCEPT !.rawTextElements = ArrayOrEmpty(@),
                                       !.voidElements = ArrayOrEmpty(@)])
    IN [o EXCEPT !.rawTextElements = JsHash(@), !.voidElements = JsHash(@)]

\* the options as the scan reads them: options.rawTextElements[nbuf.tagName]
KeysOf(config) == [config EXCEPT !.rawTextElements = @.names, !.voidElements = @.names]

\* what a call of parse gives back: the tree, or the error thrown
Outcome(s) == [pc |-> s.pc, err |-> s.err, at |-> s.at, nodes |-> s.nodes]

CallPieces == {OpenA, OpenB, CloseA, CloseB, TextX}

RECURSIVE Joined(_)
Joined(d) == IF d = <<>> THEN <<>> ELSE Head(d) \o Joined(Tail(d))

CallInputs == {Joined(d) : d \in UNION {[1..n -> CallPieces] : n \in 0..MaxCallPieces}}

CallConfigs ==
    { [DefaultOptions EXCEPT !.htmlMode = h, !.rawTextElements = JsList(r),
                             !.voidElements = JsList(v)]
        : h \in BOOLEAN, r \in {{}, {Str1("a")}}, v \in {{}, {Str1("b")}} }

InitCalls ==
    /\ Prepared(DefaultOptions, "calls", <<>>)
    /\ tw = NoCall
    /\ \E config \in CallConfigs, input \in CallInputs :
            calls = [given |-> config, config |-> config, input |-> input, returned |-> <<>>]

\* parse(input, config): the defaults are set on the caller's object, then
\* the input is scanned under them
CallParse ==
    /\ Len(calls.returned) < MaxCalls
    /\ LET set == SetDefaultsInPlace(calls.config)
       IN calls' = [calls EXCEPT !.config = set,
                                 !.returned = Append(@, Outcome(ParseOf(KeysOf(set), calls.input)))]
    /\ UNCHANGED <<parseVars, tw>>

NextCalls == CallParse

SpecCalls == InitCalls /\ [][NextCalls]_vars

SpecNest == InitNest /\ [][Next]_vars

SpecQuoted == InitQuoted /\ [][Next]_vars

SpecDocument == InitDocument /\ [][Next]_vars

SpecRaw == InitRaw /\ [][Next]_vars

SpecText == InitText /\ [][Next]_vars

SpecComment == InitComment /\ [][Next]_vars

SpecTag == InitTag /\ [][Next]_vars

SpecAttribute == InitAttribute /\ [][Next]_vars

SpecMixed == InitMixed /\ [][Next]_vars

-----------------------------------------------------------------------------
(* Properties *)

\* the node created last
Newest(ns) == ns[Len(ns)]

\* k is the root, or an attached child of a node that reaches the root
RECURSIVE ReachesRoot(_, _, _)
ReachesRoot(ns, k, fuel) ==
    \/ k = 1
    \/ /\ fuel > 0
       /\ ns[k].parent \in 1..Len(ns)
       /\ \E i \in 1..Len(ns[ns[k].parent].children) : ns[ns[k].parent].children[i] = k
       /\ ReachesRoot(ns, ns[k].parent, fuel - 1)

EndsWith(s, tail) ==
    Len(s) >= Len(tail) /\ SubSeq(s, Len(s) - Len(tail) + 1, Len(s)) = tail

\* the scan meets char outside raw-text mode in this step
Scans(char) == pc = "scan" /\ ~rmode /\ data' = Append(data, char)

AllWhitespace(s) == \A i \in 1..Len(s) : isWhitespace(s[i], FALSE)

(* C1: for a well-formed input of balanced tags, text runs, comments and     *)
(* self-closing tags, under the default options, parse returns a ROOT whose  *)
(* tree mirrors the source: the children of each element are the pieces      *)
(* written between its tags, in source order, at the same depth, with the    *)
(* same names.                                                               *)

\* the tree a node stands for: type, tag name, attributes, value, children
RECURSIVE Shape(_, _)
Shape(ns, k) ==
    <<ns[k].type, ns[k].tagName, ns[k].attributes, ns[k].value,
      [i \in 1..Len(ns[k].children) |-> Shape(ns, ns[k].children[i])]>>

C1_Attributes(k) == IF k = OpenAWithAttribute THEN <<<<Str1("c"), Str1("d")>>>> ELSE <<>>

\* one piece read into a stack of open elements, each with its children so far
C1_Read(stack, k) ==
    LET top == stack[Len(stack)]
        put(child) == [stack EXCEPT ![Len(stack)].children = Append(@, child)]
    IN CASE k \in OpeningPieces ->
                Append(stack, [name |-> PieceName(k), attributes |-> C1_Attributes(k),
                               children |-> <<>>])
         [] k \in ClosingPieces ->
                LET below == SubSeq(stack, 1, Len(stack) - 1)
                IN [below EXCEPT ![Len(below)].children =
                        Append(@, <<ELEMENT, top.name, top.attributes, <<>>, top.children>>)]
         [] k = SelfClosingB -> put(<<ELEMENT, PieceName(k), <<>>, <<>>, <<>>>>)
         [] k = CommentC -> put(<<COMMENT, <<>>, <<>>, k, <<>>>>)
         [] OTHER ->
                IF top.children # <<>> /\ top.children[Len(top.children)][1] = TEXT
                THEN [stack EXCEPT ![Len(stack)].children[Len(top.children)][4] = @ \o k]
                ELSE put(<<TEXT, <<>>, <<>>, k, <<>>>>)

RECURSIVE C1_ReadAll(_)
C1_ReadAll(d) ==
    IF d = <<>>
    THEN <<[name |-> ROOT, attributes |-> <<>>, children |-> <<>>]>>
    ELSE C1_Read(C1_ReadAll(SubSeq(d, 1, Len(d) - 1)), d[Len(d)])

\* the tree a balanced document is written as
C1_Mirror(d) ==
    LET root == C1_ReadAll(d)[1]
    IN <<ELEMENT, root.name, root.attributes, <<>>, root.children>>

\* the scan has consumed a document whose tags are all closed
C1_Balanced == feed = <<>> /\ OpenNames(doc) = <<>>

C2_ClosingName ==
    IF gate = TAG_NAME
    THEN (IF options.htmlMode THEN toLowerCase(cbuf) ELSE cbuf)
    ELSE nbuf.tagName

C2_NoOpenElement ==
    IF node = 1 THEN TRUE
    ELSE /\ nodes[node].tagName # C2_ClosingName
         /\ nodes[nodes[node].parent].tagName # C2_ClosingName

C2_UnmatchedClosingTagThrows ==
    [][(/\ Scans(GT_SIGN)
        /\ ntype = ELEMENT /\ gate # SQ_A_VAL /\ gate # DQ_A_VAL
        /\ ttype = CL_TAG
        /\ C2_NoOpenElement)
       => (pc' = "thrown" /\ err' = UnmatchedClosingTag /\ nodes' = nodes)]_vars

(* C3: parse never returns a root when the input ends while an Element tag   *)
(* or a Comment is still open.                                               *)
C3_NoReturnInsideTag == pc = "returned" => ntype \notin {ELEMENT, COMMENT}

(* C4 as claimed: outside raw-text mode "<" throws UnexpectedToken exactly   *)
(* when the tag is marked self-closing or an Element tag is in flight        *)
(* outside a quoted value, and in every other state it raises nothing.       *)
C4_LtUnexpected ==
    \/ ttype = SC_TAG
    \/ ntype = ELEMENT /\ gate \notin {SQ_A_VAL, DQ_A_VAL}

C4_LtRaisesNothingElse ==
    [][Scans(LT_SIGN)
       => IF C4_LtUnexpected
          THEN pc' = "thrown" /\ err' = UnexpectedTokenError
          ELSE pc' = "scan" /\ err' = "none"]_vars

(* C4 as amended: "<" throws UnexpectedToken exactly in those states; in     *)
(* every other state it throws no UnexpectedToken, and the only error it     *)
(* can raise is the onText contract error, when Text is open and the hook    *)
(* answers a value that is no string.                                        *)
C4_LtUnexpectedToken ==
    [][Scans(LT_SIGN)
       => IF C4_LtUnexpected
          THEN pc' = "thrown" /\ err' = UnexpectedTokenError
          ELSE \/ pc' = "scan" /\ err' = "none"
               \/ /\ pc' = "thrown" /\ err' = OnTextTypeError
                  /\ ntype = TEXT
                  /\ options.onText # Undefined
                  /\ ~CallOnText(options.onText, cbuf).isString]_vars

\* a "<" was accepted inside a double-quoted value
C4_Witness ==
    /\ pc = "scan" /\ gate = DQ_A_VAL /\ ttype # SC_TAG
    /\ cbuf # <<>> /\ cbuf[Len(cbuf)] = LT_SIGN

(* C5: the root is an Element named ROOT without parent; the open node is    *)
(* never above it, and every node created is a descendant of it.             *)
C5_RootOwnsEveryNode ==
    /\ nodes[1].type = ELEMENT /\ nodes[1].tagName = ROOT /\ nodes[1].parent = 0
    /\ node \in 1..Len(nodes)
    /\ ReachesRoot(nodes, node, Len(nodes))
    /\ \A k \in 1..Len(nodes) : ReachesRoot(nodes, k, Len(nodes))

\* a parse returned a tree with a node two levels below the root
C5_Witness ==
    /\ pc = "returned"
    /\ \E k \in 1..Len(nodes) : nodes[k].parent > 1

(* C6: raw-text mode of an element named N ends only at the contiguous       *)
(* characters "<", "/", N, ">".                                              *)
C6_RawEndsOnlyAtClosingTag ==
    [][(rmode /\ ~rmode')
       => EndsWith(data', <<LT_SIGN, F_SLASH>> \o nodes[node].tagName \o <<GT_SIGN>>)]_vars

(* C7: when raw-text mode ends, the Text child pushed into the raw-text      *)
(* element holds exactly the characters between the opening tag's ">" and    *)
(* the closing tag; raw mode is off and the open node is the parent.         *)
C7_RawTextIsTheContent ==
    [][(rmode /\ ~rmode' /\ profile = "raw" /\ node = 2)
       => /\ Len(nodes') = Len(nodes) + 1
          /\ Newest(nodes').type = TEXT
          /\ Newest(nodes').parent = node
          /\ Newest(nodes').value \o <<LT_SIGN, F_SLASH>> \o nodes[node].tagName \o <<GT_SIGN>>
                = SubSeq(data', Len(doc[1]) + 1, Len(data'))
          /\ node' = nodes[node].parent]_vars

(* C8: with ignoreEmptyText the returned tree holds no Text node whose       *)
(* value is empty or whitespace only.                                        *)
C8_NoEmptyText ==
    (pc = "returned" /\ options.ignoreEmptyText)
        => \A k \in 1..Len(nodes) : nodes[k].type = TEXT => ~AllWhitespace(nodes[k].value)

(* C9: every Text node appended has as value the accumulated text passed     *)
(* through onText, then trimmed (trimText), then collapsed (truncateText).   *)
C9_Committed(o, text) ==
    LET hooked == IF o.onText = Undefined THEN text ELSE CallOnText(o.onText, text).value
        trimmed == IF o.trimText THEN trim(hooked) ELSE hooked
    IN IF o.truncateText THEN truncateWhitespace(trimmed, FALSE) ELSE trimmed

C9_TextAppended == Len(nodes') = Len(nodes) + 1 /\ Newest(nodes').type = TEXT

\* the text accumulated for the node: the raw content in raw-text mode
C9_Accumulated ==
    IF rmode THEN Substring0(cbuf, Len(cbuf) - (Len(nodes[node].tagName) + 2)) ELSE cbuf

C9_EveryTextNodeIsPiped ==
    [][C9_TextAppended => Newest(nodes').value = C9_Committed(options, C9_Accumulated)]_vars

(* C9 as amended: every Text node committed at a "<" or at the end of the    *)
(* input has as value the accumulated text passed through onText, then       *)
(* trimmed, then collapsed; the Text node of a raw-text element holds the    *)
(* raw content as accumulated, passed through none of them.                  *)
C9_TextNodeIsPipedOutsideRawText ==
    [][C9_TextAppended
       => Newest(nodes').value =
            IF rmode THEN C9_Accumulated ELSE C9_Committed(options, C9_Accumulated)]_vars

\* "x", U+0085 and a "<": padded by onText, trimmed (U+0085 stays), collapsed
C9_Witness ==
    /\ last = "lt:text"
    /\ options.onText = "pad" /\ options.trimText /\ options.truncateText
    /\ Newest(nodes).value = <<"x", SPACE>>

(* C10: with htmlMode every Element of the returned tree other than ROOT     *)
(* has an all-lower-case tag name, whichever way its tag ended.              *)
C10_LowerCaseTagNames ==
    (pc = "returned" /\ options.htmlMode)
        => \A k \in 2..Len(nodes) :
              nodes[k].type = ELEMENT => nodes[k].tagName = toLowerCase(nodes[k].tagName)

(* C11: an element whose tag name is in voidElements and not in              *)
(* rawTextElements never has children: when its tag closes with ">" it is    *)
(* appended with isSelfClosing = true and the open node is left unchanged,   *)
(* with or without a "/" in the source.                                      *)
C11_IsVoid(name) == name \in options.voidElements /\ name \notin options.rawTextElements

\* the tag name nbuf holds once a ">" has committed the pending gate
C11_TagName == IF gate = TAG_NAME THEN CaptureTagName(options, cbuf) ELSE nbuf.tagName

C11_VoidTagCloses ==
    /\ Scans(GT_SIGN)
    /\ ntype = ELEMENT /\ gate # SQ_A_VAL /\ gate # DQ_A_VAL
    /\ C11_IsVoid(C11_TagName)

C12_NoLt == \A i \in 1..Len(data) : data[i] # LT_SIGN

C12_TextRoundTrip ==
    (options = DefaultOptions /\ C12_NoLt)
        => /\ pc # "thrown"
           /\ pc = "returned"
                => IF data = <<>>
                   THEN nodes = <<ElementNode(ROOT, <<>>, FALSE)>>
                   ELSE /\ Len(nodes) = 2
                        /\ nodes[1] = [ElementNode(ROOT, <<>>, FALSE) EXCEPT !.children = <<2>>]
                        /\ nodes[2] = [TextNode(data) EXCEPT !.parent = 1]

\* the text >" /= was parsed
C12_Witness ==
    /\ pc = "returned" /\ options = DefaultOptions
    /\ data = <<GT_SIGN, D_QUOTE, SPACE, F_SLASH, EQ_SIGN>>
    /\ Len(nodes) = 2 /\ nodes[2].value = data

(* C13 as claimed: a "<!--" in tag-start position yields exactly one Comment *)
(* node, appended to the open node, whose value is the source text from that *)
(* "<!--" through the first "-->" that follows it, unchanged.                *)

\* the source text as long as the comment buffer, up to the character scanned
C13_Source == SubSeq(data', Len(data') - Len(cbuf), Len(data'))

\* the open comment was written as a contiguous "<!--"
C13_WrittenAsComment ==
    /\ ntype = COMMENT
    /\ Len(data) >= Len(cbuf)
    /\ SubSeq(data, Len(data) - Len(cbuf) + 1, Len(data) - Len(cbuf) + 4) = CommentOpen

\* "-->" ends at position j of s
C13_ClosedAt(s, j) == j >= 3 /\ s[j - 2] = DASH /\ s[j - 1] = DASH /\ s[j] = GT_SIGN

\* while the comment is open the buffer is the source text since its "<!--",
\* and no "-->" that ends after the "<!--" has been passed
C13_BufferIsSource ==
    C13_WrittenAsComment
        => /\ cbuf = SubSeq(data, Len(data) - Len(cbuf) + 1, Len(data))
           /\ \A j \in 5..Len(cbuf) : ~C13_ClosedAt(cbuf, j)

C13_Appended ==
    /\ pc' = "scan"
    /\ Len(nodes') = Len(nodes) + 1
    /\ Newest(nodes').type = COMMENT
    /\ Newest(nodes').parent = node
    /\ Newest(nodes').value = C13_Source
    /\ node' = node
    /\ ntype' = Undefined /\ cbuf' = <<>>

C13_StaysOpen == pc' = "scan" /\ nodes' = nodes /\ ntype' = COMMENT

\* a Comment node is created only by the ">" that ends an open comment
C13_OnlyAtGt ==
    (Len(nodes') > Len(nodes) /\ Newest(nodes').type = COMMENT)
        => (ntype = COMMENT /\ Scans(GT_SIGN))

C13_CommentIsVerbatim ==
    /\ []C13_BufferIsSource
    /\ [][C13_OnlyAtGt]_vars
    /\ [][(C13_WrittenAsComment /\ Scans(GT_SIGN))
           => IF C13_ClosedAt(data', Len(data')) /\ Len(cbuf) >= 6
              THEN C13_Appended
              ELSE C13_StaysOpen]_vars

(* C13 as amended: the value is the source text from the "<!--" through the  *)
(* first ">" that directly follows two dashes, where the dashes of the       *)
(* "<!--" itself count: "<!-->" and "<!--->" are complete comments.          *)
C13_CommentIsVerbatimToFirstDashDashGt ==
    /\ []C13_BufferIsSource
    /\ [][C13_OnlyAtGt]_vars
    /\ [][(C13_WrittenAsComment /\ Scans(GT_SIGN))
           => IF C13_ClosedAt(data', Len(data'))
              THEN C13_Appended
              ELSE C13_StaysOpen]_vars

\* <!--<>--> was read: the "<" and ">" inside are part of the comment
C13_Witness ==
    /\ last = "gt:comment"
    /\ doc[1] = CommentOpen
    /\ Newest(nodes).type = COMMENT
    /\ Newest(nodes).value = CommentOpen \o <<LT_SIGN, GT_SIGN, DASH, DASH, GT_SIGN>>
    /\ Newest(nodes).parent = 1

(* C14: whitespace variants of a name-only tag normalize identically:        *)
(* whitespace between "<" and the tag name, between the tag name and ">",    *)
(* and before or after the "/" of a self-closing or closing tag does not     *)
(* change the result; <N>, <N/>, <N></N> and their variants each yield ROOT  *)
(* with one Element child named N that has no children.                      *)

\* the characters of a sequence of pieces
RECURSIVE C14_Characters(_)
C14_Characters(d) == IF d = <<>> THEN <<>> ELSE Head(d) \o C14_Characters(Tail(d))

\* the tree below a node, with every field of its nodes
RECURSIVE C14_Tree(_, _)
C14_Tree(ns, k) ==
    <<ns[k].type, ns[k].tagName, ns[k].attributes, ns[k].isSelfClosing, ns[k].value,
      [i \in 1..Len(ns[k].children) |-> C14_Tree(ns, ns[k].children[i])]>>

\* the same input written without the whitespace inside its tags, parsed
C14_Plain == ParseOf(options, C14_Characters(WithoutBlanks(doc)))

\* the input is one name-only tag of N, self-closing, left open or closed
C14_OneTagOf(N) ==
    WithoutBlanks(doc) \in
        { <<Str1(LT_SIGN), N, Str1(GT_SIGN)>>,
          <<Str1(LT_SIGN), N, Str1(F_SLASH), Str1(GT_SIGN)>>,
          <<Str1(LT_SIGN), N, Str1(GT_SIGN), Str1(LT_SIGN), Str1(F_SLASH), N, Str1(GT_SIGN)>> }

C14_SameAsPlain ==
    /\ C14_Plain.pc = pc
    /\ C14_Plain.err = err
    /\ pc = "returned" => C14_Tree(C14_Plain.nodes, 1) = C14_Tree(nodes, 1)

\* the input read so far ends with the ">" of a tag
C14_Complete == feed = <<>> /\ doc # <<>> /\ doc[Len(doc)] = Str1(GT_SIGN)

C14_WhitespaceVariantsNormalize ==
    (profile = "tag" /\ pc \in {"returned", "thrown"} /\ C14_Complete)
        => /\ C14_SameAsPlain
           /\ \A N \in TagNames :
                C14_OneTagOf(N)
                    => /\ pc = "returned"
                       /\ Len(nodes) = 2
                       /\ nodes[1].children = <<2>>
                       /\ nodes[2].type = ELEMENT
                       /\ nodes[2].tagName \in {N, toLowerCase(N)}
                       /\ nodes[2].children = <<>>

\* the claim for the inputs whose names htmlMode leaves as they are written
C14_ExceptUpperCaseInHtmlMode ==
    (options.htmlMode /\ \E i \in 1..Len(doc) : doc[i] = <<"A", "b">>)
        \/ C14_WhitespaceVariantsNormalize

(* C15: trimAttributes and truncateAttributes are applied to every attribute *)
(* value when it is committed, for every quoting style and every committing  *)
(* character: with trimAttributes no committed value starts or ends with     *)
(* whitespace, and with truncateAttributes no committed value holds two      *)
(* adjacent whitespace characters or a whitespace character other than       *)
(* U+0020.                                                                   *)

\* the attribute values committed so far: those of the tag being read and
\* those of the elements created
C15_CommittedValues ==
    {nbuf.attributes[i][2] : i \in 1..Len(nbuf.attributes)}
    \cup UNION {{nodes[k].attributes[i][2] : i \in 1..Len(nodes[k].attributes)}
                    : k \in 1..Len(nodes)}

\* v neither starts nor ends with a character of the narrowest whitespace
\* set, the one String.prototype.trim strips
C15_Trimmed(v) == v = <<>> \/ (~JsTrimmed(v[1]) /\ ~JsTrimmed(v[Len(v)]))

C15_Truncated(v) ==
    /\ \A i \in 1..Len(v) : isWhitespace(v[i], FALSE) => v[i] = SPACE
    /\ \A i \in 1..(Len(v) - 1) : ~(isWhitespace(v[i], FALSE) /\ isWhitespace(v[i + 1], FALSE))

C15_AttributeValuesAreTrimmedAndTruncated ==
    \A v \in C15_CommittedValues :
        /\ options.trimAttributes => C15_Trimmed(v)
        /\ options.truncateAttributes => C15_Truncated(v)

\* what does hold: truncated values are truncated, and values that are only
\* trimmed are trimmed of the characters trim strips
C15_TruncatedOrOnlyTrimmed ==
    \A v \in C15_CommittedValues :
        /\ (options.trimAttributes /\ ~options.truncateAttributes) => C15_Trimmed(v)
        /\ options.truncateAttributes => C15_Truncated(v)

(* C16: each of trimAttributes, truncateAttributes, trimText, truncateText   *)
(* transforms only its own target: for the same input and otherwise equal    *)
(* options, switching trimText or truncateText changes no attribute, no tag  *)
(* name, no Comment value and no parent/child structure, and switching       *)
(* trimAttributes or truncateAttributes changes no Text or Comment value and *)
(* no parent/child structure.                                                *)

\* the tree below a node without the values of its Text nodes
RECURSIVE C16_AllButText(_, _)
C16_AllButText(ns, k) ==
    <<ns[k].type, ns[k].tagName, ns[k].attributes, ns[k].isSelfClosing,
      IF ns[k].type = TEXT THEN <<>> ELSE ns[k].value,
      [i \in 1..Len(ns[k].children) |-> C16_AllButText(ns, ns[k].children[i])]>>

\* the tree below a node without the values of its attributes
RECURSIVE C16_AllButAttributeValues(_, _)
C16_AllButAttributeValues(ns, k) ==
    <<ns[k].type, ns[k].tagName,
      [i \in 1..Len(ns[k].attributes) |-> ns[k].attributes[i][1]],
      ns[k].isSelfClosing, ns[k].value,
      [i \in 1..Len(ns[k].children) |-> C16_AllButAttributeValues(ns, ns[k].children[i])]>>

\* the options with one or both of the text switches set differently
C16_OtherTextOptions ==
    {[options EXCEPT !.trimText = tr, !.truncateText = tc] : tr \in BOOLEAN, tc \in BOOLEAN}
        \ {options}

\* the options with one or both of the attribute switches set differently
C16_OtherAttributeOptions ==
    {[options EXCEPT !.trimAttributes = tr, !.truncateAttributes = tc]
        : tr \in BOOLEAN, tc \in BOOLEAN} \ {options}

C16_TextSwitchesKeepTheRest ==
    \A o \in C16_OtherTextOptions :
        LET r == ParseOf(o, data)
        IN /\ r.pc = pc /\ r.err = err
           /\ pc = "returned" => C16_AllButText(r.nodes, 1) = C16_AllButText(nodes, 1)

C16_AttributeSwitchesKeepTheRest ==
    \A o \in C16_OtherAttributeOptions :
        LET r == ParseOf(o, data)
        IN /\ r.pc = pc /\ r.err = err
           /\ pc = "returned"
                => C16_AllButAttributeValues(r.nodes, 1) = C16_AllButAttributeValues(nodes, 1)

C16_EachOptionOnlyItsTarget ==
    (profile = "mixed" /\ pc \in {"returned", "thrown"})
        => C16_TextSwitchesKeepTheRest /\ C16_AttributeSwitchesKeepTheRest

\* the claim holds when empty text is kept
C16_WithoutIgnoreEmptyText ==
    (profile = "mixed" /\ pc \in {"returned", "thrown"})
        => /\ C16_AttributeSwitchesKeepTheRest
           /\ ~options.ignoreEmptyText => C16_TextSwitchesKeepTheRest

(* C17: without an onAttribute hook, a bare attribute (a name with no        *)
(* "=value") followed by whitespace, by another attribute or by ">" is       *)
(* stored on the element with the empty string as its value; the attributes  *)
(* of <div id="a" b> are exactly {id: "a", b: ""}.                           *)

\* the tag was written <a b and then whitespace or ">": b is a bare attribute
C17_BareB == doc[1] = AttributeBare /\ data[5] \in {SPACE, NEXT_LINE, GT_SIGN}

\* the tag was written <a i="a" x> : a quoted attribute, then a bare one
C17_QuotedThenBare ==
    /\ doc[1] = AttributeQuoted
    /\ Len(data) >= 11
    /\ SubSeq(data, 9, 11) = <<SPACE, "x", GT_SIGN>>

RECURSIVE C18_CloseAll(_)
C18_CloseAll(stack) ==
    IF Len(stack) <= 1 THEN stack
    ELSE LET top == stack[Len(stack)]
             below == SubSeq(stack, 1, Len(stack) - 1)
         IN C18_CloseAll([below EXCEPT ![Len(below)].children =
                Append(@, <<ELEMENT, top.name, top.attributes, <<>>, top.children>>)])

\* the tree a document is written as, its tags balanced or not
C18_Mirror(d) ==
    LET root == C18_CloseAll(C1_ReadAll(d))[1]
    IN <<ELEMENT, root.name, root.attributes, <<>>, root.children>>

\* without raw-text elements the tree returned is the tree written
C18_TreeHoldsWhatWasCollected ==
    (pc = "returned" /\ options.rawTextElements = {})
        => /\ Shape(nodes, 1) = C18_Mirror(doc)
           /\ doc = <<OpenA>>
                => Shape(nodes, 1) = Shape(ParseOf(options, OpenA \o CloseA).nodes, 1)

\* the input ends in this step while elements are open and no tag or
\* comment is being read
C18_EndsWithOpenElements ==
    /\ pc = "scan" /\ pc' # "scan" /\ data' = data
    /\ node # 1
    /\ ntype \notin {ELEMENT, COMMENT}

\* parse returns; the tree is the one built so far, with the text that was
\* being read, if any, as the last child of the open node
C18_Returns ==
    /\ pc' = "returned"
    /\ node' = node
    /\ \/ nodes' = nodes
       \/ /\ Len(nodes') = Len(nodes) + 1
          /\ SubSeq(nodes', 1, Len(nodes)) = [nodes EXCEPT ![node].children = nodes'[node].children]
          /\ nodes'[node].children = Append(nodes[node].children, Len(nodes'))
          /\ Newest(nodes').type = TEXT
          /\ Newest(nodes').parent = node

C19_TextRunBetweenTags ==
    /\ Scans(LT_SIGN)
    /\ ntype = TEXT
    /\ options.trimText /\ ~options.ignoreEmptyText /\ options.onText = Undefined
    /\ Len(data) > Len(cbuf)
    /\ data[Len(data) - Len(cbuf)] = GT_SIGN

C19_EmptyTextNodeAppended ==
    /\ Len(nodes') = Len(nodes) + 1
    /\ Newest(nodes').type = TEXT
    /\ Newest(nodes').parent = node
    /\ Newest(nodes').value = <<>>

\* the same input parsed with trimText off has the same nodes in the same
\* order, Text values apart
C19_SameNodesAsUntrimmed ==
    (pc = "returned" /\ options.trimText /\ ~options.ignoreEmptyText)
        => LET r == ParseOf([options EXCEPT !.trimText = FALSE], data)
           IN r.pc = "returned" /\ C16_AllButText(r.nodes, 1) = C16_AllButText(nodes, 1)

C19_TrimTextKeepsEmptyTextNode ==
    /\ []C19_SameNodesAsUntrimmed
    /\ [][(C19_TextRunBetweenTags /\ AllWhitespace(cbuf)) => C19_EmptyTextNodeAppended]_vars

\* what does hold: the node is kept whatever the run, and its value is empty
\* when the run is made of characters trim strips
C19_TrimTextKeepsTextNodeOfTrimmedRun ==
    /\ []C19_SameNodesAsUntrimmed
    /\ [][(C19_TextRunBetweenTags /\ \A i \in 1..Len(cbuf) : JsTrimmed(cbuf[i]))
           => C19_EmptyTextNodeAppended]_vars

(* C20: every fatal condition stops the scan at once: when an error is       *)
(* raised no further character is processed, no further hook is invoked, no  *)
(* further node is created, and no root, not even a partial tree, is         *)
(* returned.                                                                 *)
C20_Errors ==
    {UnexpectedTokenError, UnmatchedClosingTag, UnexpectedEndOfInput, OnTextTypeError}

C20_FatalStopsTheScan ==
    /\ [](/\ err \in C20_Errors \cup {"none"}
          /\ err # "none" <=> pc = "thrown")
    /\ [][err = "none" /\ pc = "scan"]_vars
    /\ [][err' # "none" => (pc' = "thrown" /\ nodes' = nodes)]_vars

\* <a></A> threw UnmatchedClosingTag: the element a exists, and no root is returned
C20_Witness ==
    /\ pc = "thrown" /\ err = UnmatchedClosingTag
    /\ data = <<LT_SIGN, "a", GT_SIGN, LT_SIGN, F_SLASH, "A", GT_SIGN>>
    /\ Len(nodes) = 2

(* C21: onText is invoked exactly once for each text run that is flushed (at *)
(* a "<" that follows text, and at the end of the input), with the text as   *)
(* accumulated from the source, before trimText, truncateText and            *)
(* ignoreEmptyText; its answer replaces the text, and an answer that is no   *)
(* string aborts the parse.                                                  *)
\* the text written since the last tag: the characters after the last ">"
RECURSIVE C21_RunOf(_)
C21_RunOf(d) ==
    IF d = <<>> THEN <<>>
    ELSE IF d[Len(d)] \in {LT_SIGN, GT_SIGN} THEN <<>>
    ELSE Append(C21_RunOf(SubSeq(d, 1, Len(d) - 1)), d[Len(d)])

C21_AtLt == data' = Append(data, LT_SIGN)
C21_AtEnd == data' = data /\ pc' # "scan"

\* the step flushes a text run
C21_Flushes ==
    /\ pc = "scan" /\ ~rmode /\ ntype = TEXT
    /\ C21_AtLt \/ (C21_AtEnd /\ C21_RunOf(data) # <<>>)

C21_Processed(o, text) ==
    LET trimmed == IF o.trimText THEN trim(text) ELSE text
    IN IF o.truncateText THEN truncateWhitespace(trimmed, FALSE) ELSE trimmed

C21_HookedFlush ==
    LET answer == CallOnText(options.onText, C21_RunOf(data))
    IN /\ hooks' = Append(hooks, <<"onText", C21_RunOf(data)>>)
       /\ IF answer.isString
          THEN /\ err' = "none"
               /\ \/ /\ options.ignoreEmptyText
                     /\ trim(C21_Processed(options, answer.value)) = <<>>
                     /\ nodes' = nodes
                  \/ /\ Len(nodes') = Len(nodes) + 1
                     /\ Newest(nodes').type = TEXT
                     /\ Newest(nodes').value = C21_Processed(options, answer.value)
          ELSE pc' = "thrown" /\ err' = OnTextTypeError /\ nodes' = nodes

C21_OnTextOncePerFlushedRun ==
    [][IF C21_Flushes /\ options.onText # Undefined
       THEN C21_HookedFlush
       ELSE hooks' = hooks]_vars

\* x<a>x with a padding hook and trimText: two runs, two calls with "x"
C21_Witness ==
    /\ profile = "text" /\ pc = "returned"
    /\ options.onText = "pad" /\ options.trimText /\ options.rawTextElements = {}
    /\ hooks = << <<"onText", <<"x">> >>, <<"onText", <<"x">> >> >>
    /\ Len(nodes) = 4

(* C22: onSnapshot is invoked exactly once per character of the trimmed      *)
(* input, in index order and before the character is processed (in raw-text  *)
(* mode too), until the scan ends or an error is raised; and it has no       *)
(* effect on parsing: tree and error are the same with and without the hook. *)
\* the scan of the same characters by a call that differs in onSnapshot only
C22_Toggled ==
    LET o == [options EXCEPT !.onSnapshot = IF @ = Undefined THEN "trace" ELSE Undefined]
        s == ScanFrom(Fresh, o, data)
    IN IF pc # "scan" /\ s.pc = "scan" THEN OnEnd(s, o) ELSE s

\* one snapshot per character scanned, in index order
C22_OncePerCharacter ==
    IF options.onSnapshot = Undefined
    THEN snapshots = <<>>
    ELSE /\ Len(snapshots) = Len(data)
         /\ \A i \in 1..Len(data) : snapshots[i].currentChar = data[i]

\* the hook changes nothing the parse computes
C22_NoEffect ==
    LET t == C22_Toggled
    IN /\ t.pc = pc /\ t.err = err /\ t.nodes = nodes /\ t.node = node
       /\ t.cbuf = cbuf /\ t.abuf = abuf /\ t.nbuf = nbuf /\ t.gate = gate
       /\ t.ntype = ntype /\ t.ttype = ttype /\ t.rmode = rmode /\ t.rmbuf = rmbuf
       /\ t.hooks = hooks

\* the snapshot shows the state as it is before the character is processed
C22_BeforeProcessing ==
    (options.onSnapshot # Undefined /\ Len(data') = Len(data) + 1)
        => snapshots' = Append(snapshots,
              [currentChar |-> data'[Len(data')], attributesBuffer |-> abuf,
               characterBuffer |-> cbuf, gate |-> gate,
               openTag |-> nodes[node].tagName, openNodeType |-> ntype,
               openTagType |-> ttype, rawTextMode |-> rmode, rawTextBuffer |-> rmbuf])

C22_SnapshotPerCharacterWithoutEffect ==
    /\ [](C22_OncePerCharacter /\ C22_NoEffect)
    /\ [][C22_BeforeProcessing]_vars
    /\ [][Len(data') = Len(data) => snapshots' = snapshots]_vars

\* <a>x</ then "<" scanned with the hook: the last snapshots were taken in
\* raw-text mode, and the parse has not ended
C22_Witness ==
    /\ profile = "raw" /\ options.onSnapshot # Undefined
    /\ data = <<LT_SIGN, "a", GT_SIGN, "x", LT_SIGN, F_SLASH>>
    /\ Len(snapshots) = 6
    /\ snapshots[5].rawTextMode /\ snapshots[5].characterBuffer = <<"x">>
    /\ snapshots[6].rawTextBuffer = <<LT_SIGN>>

(* C23: when onAttribute is invoked, only a well-formed 2-element array      *)
(* (a non-empty string name, then a string, number or boolean) is applied:   *)
(* the value is stored under the returned name, a string value after         *)
(* trimAttributes/truncateAttributes; for any other answer nothing is        *)
(* stored and the bare attribute is dropped from the element.                *)
C23_Called == Len(hooks') = Len(hooks) + 1 /\ hooks'[Len(hooks')][1] = "onAttribute"

C23_Answer == CallOnAttribute(options.onAttribute, hooks'[Len(hooks')][2])

C23_ElementCreated == Len(nodes') = Len(nodes) + 1 /\ Newest(nodes').type = ELEMENT

\* the attributes collected before the hook, with the answer applied
C23_Applied(attr) ==
    SetAttribute(nbuf.attributes, attr.items[1].v,
                 IF attr.items[2].type = "string"
                 THEN AttributeValue(options, attr.items[2].v)
                 ELSE attr.items[2].v)

C23_TwoItems(attr) == attr.isArray /\ Len(attr.items) = 2

C23_FirstTwoFit(attr) ==
    /\ attr.isArray /\ Len(attr.items) >= 2
    /\ attr.items[1].type = "string" /\ attr.items[1].v # <<>>
    /\ attr.items[2].type \in {"string", "number", "boolean"}

C23_OnlyWellFormedPairIsApplied ==
    [][(C23_Called /\ C23_ElementCreated)
        => Newest(nodes').attributes =
             IF C23_TwoItems(C23_Answer) /\ C23_FirstTwoFit(C23_Answer)
             THEN C23_Applied(C23_Answer)
             ELSE nbuf.attributes]_vars

(* What holds of C23: the answer is applied whenever it is an array whose    *)
(* first two items are a non-empty string and a string, number or boolean,   *)
(* however many items follow; for any other answer nothing is stored.        *)
C23_AppliedWhenFirstTwoItemsFit ==
    [][(C23_Called /\ C23_ElementCreated)
        => Newest(nodes').attributes =
             IF C23_FirstTwoFit(C23_Answer)
             THEN C23_Applied(C23_Answer)
             ELSE nbuf.attributes]_vars

(* C24: UnexpectedToken and UnmatchedClosingTag carry the 1-based offset of  *)
(* the offending character in the input as the caller supplied it, also when *)
(* that input starts with whitespace the parser strips before scanning.      *)
C24_OffsetError == pc = "thrown" /\ err \in {UnexpectedTokenError, UnmatchedClosingTag}

\* the offending character is the last one scanned; the caller's input is
\* lead, then data, then what was not scanned
C24_OffsetCountsCallersInput ==
    C24_OffsetError => at = Len(lead) + Len(data)

(* What holds of C24: the offset is 1-based and counted in the trimmed       *)
(* input, so it is the caller's offset only when no whitespace was stripped. *)
C24_OffsetCountsTrimmedInput ==
    /\ C24_OffsetError => (at = Len(data) /\ at >= 1)
    /\ ~C24_OffsetError => at = 0

(* C25: whitespace collapsing is idempotent: for every string s and either   *)
(* value of includeSymbols, truncateWhitespace(truncateWhitespace(s)) equals *)
(* truncateWhitespace(s).                                                    *)
C25_SecondCallReturned == tw.pc = "returned" /\ tw.round = 2

C25_TruncateIsIdempotent ==
    /\ C25_SecondCallReturned => tw.n = tw.first
    /\ tw.pc = "returned" => tw.n = truncateWhitespace(tw.string, tw.includeSymbols)

\* "a", TAB, U+0085, "b" became "a b", and "a b" again
C25_Witness ==
    /\ C25_SecondCallReturned
    /\ tw.given = <<"a", CHARACTER_TABULATION, NEXT_LINE, "b">>
    /\ tw.first = <<"a", SPACE, "b">>
    /\ tw.n = <<"a", SPACE, "b">>

(* C26: truncateWhitespace(s) replaces every maximal run of whitespace       *)
(* characters of s by exactly one U+0020 and passes every other character    *)
(* through unchanged and in order: the output has no two adjacent spaces, no *)
(* whitespace character other than U+0020, and the same sequence of          *)
(* non-whitespace characters as s.                                           *)
C26_White(c) == isWhitespace(c, tw.includeSymbols)

\* the characters of s that are no whitespace, in order
RECURSIVE C26_NonWhite(_)
C26_NonWhite(s) ==
    IF s = <<>> THEN <<>>
    ELSE IF C26_White(Head(s)) THEN C26_NonWhite(Tail(s))
    ELSE <<Head(s)>> \o C26_NonWhite(Tail(s))

\* the number of maximal runs of whitespace in s
C26_Runs(s) ==
    Cardinality({i \in 1..Len(s) : C26_White(s[i]) /\ (i = 1 \/ ~C26_White(s[i - 1]))})

\* where the runs lie: before how many non-whitespace characters each starts
C26_RunPlaces(s) ==
    {Len(C26_NonWhite(SubSeq(s, 1, i))) :
        i \in {j \in 1..Len(s) : C26_White(s[j]) /\ (j = 1 \/ ~C26_White(s[j - 1]))}}

C26_RunsBecomeOneSpace ==
    (tw.pc = "returned" /\ tw.round = 1)
        => /\ \A i \in 1..Len(tw.n) : C26_White(tw.n[i]) => tw.n[i] = SPACE
           /\ \A i \in 1..(Len(tw.n) - 1) : ~(tw.n[i] = SPACE /\ tw.n[i + 1] = SPACE)
           /\ C26_NonWhite(tw.n) = C26_NonWhite(tw.string)
           /\ C26_Runs(tw.n) = C26_Runs(tw.string)
           /\ C26_RunPlaces(tw.n) = C26_RunPlaces(tw.string)

\* with includeSymbols: "a", U+00B7, TAB, "b" became "a b"
C26_Witness ==
    /\ tw.pc = "returned" /\ tw.round = 1 /\ tw.includeSymbols
    /\ tw.string = <<"a", MIDDLE_DOT, CHARACTER_TABULATION, "b">>
    /\ tw.n = <<"a", SPACE, "b">>

(* C27: for a tag name that is in neither rawTextElements nor voidElements,  *)
(* a closing tag is accepted if and only if the open node is not the root    *)
(* and the name equals the open node's tag name or its parent's tag name; on *)
(* acceptance the open node moves up exactly one level, to the open node's   *)
(* parent, also when the name matched the parent; no ancestor further up is  *)
(* searched.                                                                 *)
\* the name a closing tag is written with
C27_Name(k) ==
    CASE k = CloseB -> Str1("b")
      [] k = CloseC -> Str1("c")
      [] k = CloseRoot -> ROOT
      [] OTHER -> Str1("a")

\* the step scans the ">" of a closing tag
C27_ClosingTagEnds ==
    /\ pc = "scan" /\ feed = <<GT_SIGN>> /\ Len(data') = Len(data) + 1
    /\ doc # <<>> /\ doc[Len(doc)] \in NestClosingPieces
    /\ C27_Name(doc[Len(doc)]) \notin options.rawTextElements \cup options.voidElements

C27_NameIsOpenOrParent ==
    LET name == C27_Name(doc[Len(doc)])
    IN /\ node # 1
       /\ \/ nodes[node].tagName = name
          \/ nodes[nodes[node].parent].tagName = name

C28_AfterTagName == gate = TAG_NAME /\ cbuf # <<>>
C28_AfterBareName == gate = ATT_NAME /\ cbuf # <<>>
C28_AfterUnquotedValue == gate = NQ_A_VAL

\* the step scans a "/" in one of the three places, in a tag not yet marked
C28_SlashInPlace ==
    /\ Scans(F_SLASH) /\ ntype = ELEMENT /\ ttype = Undefined
    /\ C28_AfterTagName \/ C28_AfterBareName \/ C28_AfterUnquotedValue

C28_Has(attributes, key, value) ==
    \E j \in 1..Len(attributes) : attributes[j] = <<key, value>>

\* the name or value before the "/" is committed by the step
C28_Committed ==
    /\ cbuf' = <<>>
    /\ C28_AfterTagName => nbuf'.tagName = cbuf
    /\ C28_AfterBareName => (abuf' = cbuf \/ C28_Has(nbuf'.attributes, cbuf, <<>>))
    /\ C28_AfterUnquotedValue
            => C28_Has(nbuf'.attributes, abuf, AttributeValue(options, cbuf))

C28_Plain ==
    /\ profile = "attribute"
    /\ options.rawTextElements = {} /\ options.onAttribute = Undefined

\* <a b/> is read as <a b /> is
C28_BareThenSlash ==
    (C28_Plain /\ data = <<LT_SIGN, "a", SPACE, "b", F_SLASH, GT_SIGN>>)
        => /\ Len(nodes) = 2 /\ node = 1
           /\ nodes[2].isSelfClosing
           /\ nodes[2].attributes = << <<Str1("b"), <<>>>> >>
           /\ nodes = ScanFrom(Fresh, options,
                               <<LT_SIGN, "a", SPACE, "b", SPACE, F_SLASH, GT_SIGN>>).nodes

C28_SlashSignalsSelfClosing ==
    /\ []C28_BareThenSlash
    /\ [][C28_SlashInPlace => (ttype' = SC_TAG /\ C28_Committed)]_vars

(* What holds of C28: directly after the tag name and after an unquoted      *)
(* value the "/" marks the tag self-closing and commits the name or value;   *)
(* <a b /> yields a self-closing a with {b: ""}.                             *)
C28_SlashAfterTagNameOrValue ==
    /\ [](C28_Plain /\ data = <<LT_SIGN, "a", SPACE, "b", SPACE, F_SLASH, GT_SIGN>>
            => /\ Len(nodes) = 2 /\ node = 1
               /\ nodes[2].isSelfClosing
               /\ nodes[2].attributes = << <<Str1("b"), <<>>>> >>)
    /\ [][(C28_SlashInPlace /\ ~C28_AfterBareName)
            => (ttype' = SC_TAG /\ C28_Committed)]_vars
    /\ [][(C28_SlashInPlace /\ C28_AfterBareName)
            => (ttype' = Undefined /\ gate' = ATT_NAME
                /\ cbuf' = Append(cbuf, F_SLASH))]_vars

(* C29: a tag explicitly marked self-closing (a "/" before its ">") is never *)
(* descended into: after its ">" the open node is the node that was open     *)
(* before the tag's "<", so the element it creates never receives children,  *)
(* for every tag name and configuration.                                     *)
\* the step scans the ">" of an element tag that a "/" has marked self-closing
C29_MarkedTagEnds ==
    /\ Scans(GT_SIGN) /\ ntype = ELEMENT
    /\ gate # SQ_A_VAL /\ gate # DQ_A_VAL
    /\ ttype = SC_TAG

\* the element is appended to the open node, which stays the open node
C29_NotDescended ==
    /\ pc' = "scan" /\ node' = node /\ ~rmode'
    /\ Len(nodes') = Len(nodes) + 1
    /\ Newest(nodes').type = ELEMENT /\ Newest(nodes').parent = node
    /\ Newest(nodes').isSelfClosing

C29_SelfClosingHasNoChildren ==
    \A k \in 1..Len(nodes) : nodes[k].isSelfClosing => nodes[k].children = <<>>

C29_SelfClosingIsNeverDescended ==
    /\ []C29_SelfClosingHasNoChildren
    /\ [][C29_MarkedTagEnds => C29_NotDescended]_vars

\* the name the ">" step tests against rawTextElements
C29_TagName == IF gate = TAG_NAME THEN CaptureTagName(options, cbuf) ELSE nbuf.tagName

(* What holds of C29: a tag marked self-closing is not descended into unless *)
(* its name is a raw-text element, which is entered in raw-text mode.        *)
C29_NotDescendedUnlessRawText ==
    /\ []C29_SelfClosingHasNoChildren
    /\ [][C29_MarkedTagEnds
            => IF C29_TagName \in options.rawTextElements
               THEN /\ rmode' /\ node' = Len(nodes') /\ Len(nodes') = Len(nodes) + 1
                    /\ ~Newest(nodes').isSelfClosing
               ELSE C29_NotDescended]_vars

(* C30: an opening tag <name ...> written without any "/" is always          *)
(* processed as an opening tag, whatever preceded it in the input: the tag   *)
(* type recorded for one tag or comment never carries over to a later tag,   *)
(* i.e. the tag type is none whenever no Element tag is in flight.           *)
C30_NoTagTypeOutsideTags == ntype # ELEMENT => ttype = Undefined

\* what was scanned since the last ">"
RECURSIVE C30_SinceGt(_)
C30_SinceGt(d) ==
    IF d = <<>> THEN <<>>
    ELSE IF d[Len(d)] = GT_SIGN THEN <<>>
    ELSE Append(C30_SinceGt(SubSeq(d, 1, Len(d) - 1)), d[Len(d)])

\* the step scans the ">" of an element tag written without any "/"
C30_OpeningTagEnds ==
    /\ Scans(GT_SIGN) /\ ntype = ELEMENT
    /\ gate # SQ_A_VAL /\ gate # DQ_A_VAL
    /\ \A j \in 1..Len(C30_SinceGt(data)) : C30_SinceGt(data)[j] # F_SLASH

\* the element is created as a child of the open node
C30_ProcessedAsOpening ==
    /\ pc' = "scan"
    /\ Len(nodes') = Len(nodes) + 1
    /\ Newest(nodes').type = ELEMENT /\ Newest(nodes').parent = node

C30_TagTypeNeverCarriesOver ==
    /\ []C30_NoTagTypeOutsideTags
    /\ [][C30_OpeningTagEnds => C30_ProcessedAsOpening]_vars



(* What holds of C30: the tag type is none outside element tags, and a tag   *)
(* written without "/" is processed as an opening tag, unless a comment was  *)
(* written directly after "</": the closing mark then outlives the comment.  *)
C30_CarriesOverFromCommentAfterSlash ==
    /\ [](doc # <<>> /\ doc[1] # CommentAfterSlash => C30_NoTagTypeOutsideTags)
    /\ [][(C30_OpeningTagEnds /\ doc[1] # CommentAfterSlash) => C30_ProcessedAsOpening]_vars
    /\ [](ttype # Undefined /\ ntype # ELEMENT => ttype = CL_TAG)

(* C31: an in-flight Element is reclassified as a Comment only when the      *)
(* tag-name buffer spells exactly "!--", i.e. the three characters right     *)
(* after "<" are "!", "-", "-"; no other sequence (such as "<!-x-") turns a  *)
(* tag into a comment or discards buffered tag-name characters.              *)
C31_Reclassified == ntype = ELEMENT /\ ntype' = COMMENT

\* the buffer holds "!-" and the character scanned is the second "-"
C31_SpellsBangDashDash == gate = TAG_NAME /\ cbuf = <<BANG, DASH>> /\ Scans(DASH)

C31_CommentOnlyAfterBangDashDash ==
    /\ [][C31_Reclassified => C31_SpellsBangDashDash]_vars
    /\ [][C31_Reclassified => cbuf' = <<LT_SIGN>> \o cbuf \o <<DASH>>]_vars

(* What holds of C31: the tag becomes a comment whenever a "-" is scanned    *)
(* while the tag-name buffer starts with "!-", whatever follows the "!-" in  *)
(* the buffer; what follows is replaced by "<!--".                           *)
C31_CommentAfterBangDashAnythingDash ==
    /\ [][C31_Reclassified <=>
            (ntype = ELEMENT /\ gate = TAG_NAME /\ ~rmode /\ pc = "scan"
             /\ StartsComment(cbuf, DASH) /\ Scans(DASH))]_vars
    /\ [][C31_Reclassified => cbuf' = <<LT_SIGN, BANG, DASH, DASH>>]_vars

(* C32: a raw-text element has at most one child in the returned tree, a     *)
(* Text node: while raw-text mode is active no node is created and no hook   *)
(* other than onSnapshot is called, and once the mode has ended the raw-text *)
(* element never becomes the open node again.                                *)
C32_IsRaw(ns, k) == ns[k].type = ELEMENT /\ IsRawTextElement(options, ns[k].tagName)

C32_AtMostOneText ==
    \A k \in 1..Len(nodes) :
        C32_IsRaw(nodes, k) =>
            /\ Len(nodes[k].children) <= 1
            /\ \A i \in 1..Len(nodes[k].children) : nodes[nodes[k].children[i]].type = TEXT

\* a raw-text element is the open node exactly while the mode is active,
\* and it has no child yet
C32_OpenOnlyInRawTextMode ==
    IF rmode
    THEN C32_IsRaw(nodes, node) /\ nodes[node].children = <<>>
    ELSE ~C32_IsRaw(nodes, node)

\* a step taken in raw-text mode calls no hook but onSnapshot; it creates no
\* node unless it ends the mode, and then the one Text node of the element
C32_SilentStep ==
    rmode =>
        /\ hooks' = hooks
        /\ IF rmode'
           THEN nodes' = nodes /\ node' = node
           ELSE /\ Len(nodes') = Len(nodes) + 1
                /\ Newest(nodes').type = TEXT /\ Newest(nodes').parent = node
                /\ nodes'[node].children = <<Len(nodes')>>
                /\ node' = nodes[node].parent

\* the mode is entered with a raw-text element created in that step
C32_EnteredWithNewElement ==
    (~rmode /\ rmode') =>
        /\ node' = Len(nodes') /\ Len(nodes') = Len(nodes) + 1
        /\ C32_IsRaw(nodes', node')

C32_RawTextElementHoldsOneText ==
    /\ [](C32_AtMostOneText /\ C32_OpenOnlyInRawTextMode)
    /\ [][C32_SilentStep /\ C32_EnteredWithNewElement]_vars

\* <a>x</a>x with a raw-text element a and an onText hook: a holds the Text
\* "x", the later text went to the root and was the hook's only call
C32_Witness ==
    /\ pc = "returned" /\ options.onText = "pad"
    /\ data = <<LT_SIGN, "a", GT_SIGN, "x", LT_SIGN, F_SLASH, "a", GT_SIGN, "x">>
    /\ Len(nodes) = 4 /\ C32_IsRaw(nodes, 2)
    /\ nodes[2].children = <<3>> /\ nodes[3].type = TEXT /\ nodes[3].value = <<"x">>
    /\ nodes[4].parent = 1 /\ Len(hooks) = 1

(* C33: a tag name listed in both rawTextElements and voidElements is        *)
(* treated as a raw-text element, not as a void element: its opening tag is  *)
(* not marked self-closing, the parser descends into it and enters raw-text  *)
(* mode.                                                                     *)
C33_InBoth(name) == name \in options.rawTextElements /\ name \in options.voidElements

\* the tag name nbuf holds once a ">" has committed the pending gate
C33_TagName == IF gate = TAG_NAME THEN CaptureTagName(options, cbuf) ELSE nbuf.tagName

\* the step scans the ">" of a tag whose name is in both lists
C33_TagInBothEnds ==
    /\ Scans(GT_SIGN) /\ ntype = ELEMENT
    /\ gate # SQ_A_VAL /\ gate # DQ_A_VAL
    /\ C33_InBoth(C33_TagName)

C33_EnteredAsRawText ==
    /\ pc' = "scan" /\ rmode'
    /\ Len(nodes') = Len(nodes) + 1 /\ node' = Len(nodes')
    /\ Newest(nodes').type = ELEMENT /\ Newest(nodes').parent = node
    /\ Newest(nodes').tagName = C33_TagName
    /\ ~Newest(nodes').isSelfClosing

C33_RawTextOverridesVoid ==
    /\ [](\A k \in 1..Len(nodes) : C33_InBoth(nodes[k].tagName) => ~nodes[k].isSelfClosing)
    /\ [][C33_TagInBothEnds => C33_EnteredAsRawText]_vars

\* <s>x</s> with s in both lists: s is not self-closing and holds the text "x"
C33_Witness ==
    /\ C33_InBoth(Str1("s")) /\ pc = "returned" /\ doc = <<RawS>>
    /\ Len(nodes) = 3 /\ nodes[2].tagName = Str1("s") /\ ~nodes[2].isSelfClosing
    /\ nodes[2].children = <<3>> /\ nodes[3].type = TEXT /\ nodes[3].value = <<"x">>

(* C34: while the gate is a single- or double-quoted attribute value, only   *)
(* the matching quote character ends the value: every other character        *)
(* (whitespace, ">", "=", the other kind of quote, and "<" or "/" in a tag   *)
(* not yet marked self-closing) is appended unchanged to the value buffer    *)
(* and leaves gate, node type, tag type, open node and the tree unchanged.   *)
C34_InQuotedValue == pc = "scan" /\ ~rmode /\ gate \in {SQ_A_VAL, DQ_A_VAL}

\* the character the step scans
C34_Char == data'[Len(data')]

C34_Matching ==
    \/ gate = SQ_A_VAL /\ C34_Char = S_QUOTE
    \/ gate = DQ_A_VAL /\ C34_Char = D_QUOTE

\* "<" and "/" are refused once the tag is marked self-closing
C34_Refused == ttype = SC_TAG /\ C34_Char \in {LT_SIGN, F_SLASH}

C34_Appended ==
    /\ pc' = "scan" /\ cbuf' = Append(cbuf, C34_Char)
    /\ UNCHANGED <<gate, ntype, ttype, node, nodes, nbuf, abuf, rmode>>

C34_ValueEnded ==
    /\ pc' = "scan" /\ gate' = Undefined /\ cbuf' = <<>> /\ abuf' = <<>>
    /\ nbuf'.attributes = SetAttribute(nbuf.attributes, abuf, AttributeValue(options, cbuf))
    /\ UNCHANGED <<ntype, ttype, node, nodes>>

C34_OnlyMatchingQuoteEndsValue ==
    /\ [](gate \in {SQ_A_VAL, DQ_A_VAL} => ntype = ELEMENT /\ abuf # <<>>)
    /\ [][(C34_InQuotedValue /\ Len(data') = Len(data) + 1)
            => IF C34_Matching THEN C34_ValueEnded
               ELSE IF C34_Refused THEN pc' = "thrown" /\ err' = UnexpectedTokenError
               ELSE C34_Appended]_vars

\* <a b="<'/> : the value buffer holds < ' / > and the double quote is still open
C34_Witness ==
    /\ pc = "scan" /\ gate = DQ_A_VAL /\ ttype = Undefined
    /\ cbuf = <<LT_SIGN, S_QUOTE, F_SLASH, GT_SIGN>>
    /\ abuf = Str1("b") /\ Len(nodes) = 1

(* C35: onAttribute is invoked only on the path where ">" directly follows a *)
(* bare attribute name (the gate is attribute-name when the tag closes); it  *)
(* is never invoked for attributes written with "=" (quoted, unquoted or     *)
(* empty value), nor for a bare attribute that is followed by whitespace, by *)
(* "/" or by another attribute, and it is invoked at most once per tag.      *)
C35_Invoked == Len(hooks') = Len(hooks) + 1 /\ hooks'[Len(hooks')][1] = "onAttribute"

\* the step scans the ">" of a tag whose gate is attribute-name
C35_TagClosesOnBareName == Scans(GT_SIGN) /\ ntype = ELEMENT /\ gate = ATT_NAME

\* the character scanned before this step belongs to an attribute name
C35_NameDirectlyBefore ==
    /\ data # <<>>
    /\ data[Len(data)] \notin {F_SLASH, EQ_SIGN, GT_SIGN, LT_SIGN}
    /\ ~isWhitespace(data[Len(data)], FALSE)

\* the step ends the tag, so that no second call can follow in the same tag
C35_TagEnds == pc' = "thrown" \/ ntype' = Undefined

C35_OnAttributeOnlyForBareNameBeforeGt ==
    /\ [][C35_Invoked
            => /\ C35_TagClosesOnBareName /\ C35_NameDirectlyBefore
               /\ hooks'[Len(hooks')][2] = cbuf
               /\ C35_TagEnds]_vars
    /\ [][Len(hooks') \in {Len(hooks), Len(hooks) + 1}]_vars

(* What holds of C35: onAttribute is invoked exactly when ">" is scanned     *)
(* while the gate is attribute-name, once, with the buffer as the name; the  *)
(* buffer ends in "/" when a "/" directly follows the bare name.             *)
C35_OnAttributeWheneverGateIsAttributeName ==
    /\ [][C35_Invoked <=> (C35_TagClosesOnBareName /\ options.onAttribute # Undefined)]_vars
    /\ [][C35_Invoked
            => /\ hooks'[Len(hooks')][2] = cbuf /\ C35_TagEnds
               /\ data[Len(data)] \notin {EQ_SIGN, GT_SIGN, LT_SIGN}
               /\ ~isWhitespace(data[Len(data)], FALSE)]_vars

(* C36: at every step of the scan the open node is an Element that is the    *)
(* root or an attached descendant of the root; it is never undefined, never  *)
(* a Text or Comment node, and it changes only by descending into a          *)
(* just-appended element or by moving to its own parent.                     *)
C36_OpenNodeIsAttachedElement ==
    /\ node \in 1..Len(nodes)
    /\ nodes[node].type = ELEMENT
    /\ ReachesRoot(nodes, node, Len(nodes))
    /\ \A k \in 1..Len(nodes) : nodes[k].type \in {TEXT, COMMENT} => nodes[k].children = <<>>

\* the open node becomes the element this step appended to it
C36_Descends ==
    /\ Len(nodes') = Len(nodes) + 1 /\ node' = Len(nodes')
    /\ nodes'[node'].type = ELEMENT /\ nodes'[node'].parent = node
    /\ nodes'[node].children = Append(nodes[node].children, node')

C36_MovesToParent == node # 1 /\ node' = nodes[node].parent /\ nodes'[node'].type = ELEMENT

C36_OpenNodeIsElementBelowRoot ==
    /\ []C36_OpenNodeIsAttachedElement
    /\ [][node' # node => (C36_Descends \/ C36_MovesToParent)]_vars

\* <a><s>x</s><b> : the open node went down to a and s, back to a, down to b
C36_Witness ==
    /\ profile = "nesting" /\ pc = "scan"
    /\ doc = <<OpenA, RawS, OpenB>> /\ feed = <<>>
    /\ Len(nodes) = 5 /\ node = 5 /\ nodes[5].parent = 2 /\ nodes[3].parent = 2
    /\ nodes[4].type = TEXT /\ nodes[4].parent = 3

(* C37: the tree is built append-only: every node created during the scan is *)
(* attached at creation as the last child of the then-current open node,     *)
(* and afterwards no step of the scan removes it, moves it, reorders         *)
(* siblings or changes its value, tag name or attributes; an element only    *)
(* ever gains children at its end while it is the open node.                 *)
\* the step creates at most one node, as the last child of the open node
C37_AttachedAtCreation ==
    \/ Len(nodes') = Len(nodes) /\ nodes'[node] = nodes[node]
    \/ /\ Len(nodes') = Len(nodes) + 1
       /\ Newest(nodes').parent = node /\ Newest(nodes').children = <<>>
       /\ nodes'[node] = [nodes[node] EXCEPT !.children = Append(@, Len(nodes'))]

\* every node but the open node is left as it was
C37_OthersUntouched == \A k \in 1..Len(nodes) : k # node => nodes'[k] = nodes[k]

\* every node but the root is listed once, by its parent, in order of creation
C37_ListedOnceByParent ==
    /\ \A k \in 2..Len(nodes) :
        /\ nodes[k].parent \in 1..(k - 1)
        /\ Cardinality({i \in 1..Len(nodes[nodes[k].parent].children) :
                            nodes[nodes[k].parent].children[i] = k}) = 1
    /\ \A p \in 1..Len(nodes) :
        \A i \in 1..Len(nodes[p].children) :
            /\ nodes[nodes[p].children[i]].parent = p
            /\ i > 1 => nodes[p].children[i - 1] < nodes[p].children[i]

C37_TreeIsAppendOnly ==
    /\ []C37_ListedOnceByParent
    /\ [][C37_AttachedAtCreation /\ C37_OthersUntouched]_vars

\* <a c='d'>x<!--c--><b/> : a holds a text, a comment and an element, in
\* source order, and kept its attribute
C37_Witness ==
    /\ profile = "document" /\ pc = "scan" /\ feed = <<>>
    /\ doc = <<OpenAWithAttribute, TextX, CommentC, SelfClosingB>>
    /\ Len(nodes) = 5 /\ node = 2 /\ nodes[2].children = <<3, 4, 5>>
    /\ nodes[2].attributes = << <<Str1("c"), Str1("d")>> >>
    /\ nodes[3].type = TEXT /\ nodes[4].type = COMMENT /\ nodes[5].type = ELEMENT

(* C38: parse leaves the caller's configuration effective for later calls:   *)
(* calling parse twice with the same configuration object (holding           *)
(* caller-supplied rawTextElements and/or voidElements lists) and the same   *)
(* input returns structurally equal trees, the supplied names being honoured *)
(* in the second call as in the first.                                       *)
C38_SecondCallReturnsEqualTree ==
    Len(calls.returned) >= 2 => calls.returned[2] = calls.returned[1]

(* What holds of C38: the first call honours the caller's lists and leaves   *)
(* hashes in their place; every later call takes them for absent, and        *)
(* returns what parse returns for the same object without the two lists.     *)
C38_WithoutLists ==
    [calls.given EXCEPT !.rawTextElements = JsList({}), !.voidElements = JsList({})]

C38_LaterCallsForgetTheLists ==
    \A k \in 1..Len(calls.returned) :
        /\ ~calls.config.rawTextElements.isArray /\ ~calls.config.voidElements.isArray
        /\ calls.returned[k] =
             Outcome(ParseOf(KeysOf(SetDefaultsInPlace(IF k = 1 THEN calls.given
                                                         ELSE C38_WithoutLists)),
                             calls.input))

(* C39: if the input ends while raw-text mode is active and raw content has  *)
(* been accumulated since the opening tag, parse fails with the end-of-input *)
(* error; it never returns a tree from which accumulated raw content is      *)
(* silently missing.                                                         *)
\* the input ends in this step, in raw-text mode
C39_EndsInRawTextMode == pc = "scan" /\ rmode /\ pc' # "scan" /\ data' = data

\* what was written after the opening tag of the raw-text profile
C39_Content == SubSeq(data, Len(doc[1]) + 1, Len(data))

\* raw-text mode was not left since the opening tag: the buffer holds the
\* content written so far
C39_Accumulated ==
    (/\ profile = "raw" /\ rmode /\ feed = <<>> /\ doc # <<>>
     /\ \A j \in 1..Len(nodes) : nodes[j].type # TEXT)
        => cbuf = C39_Content

C39_RawContentIsNeverDropped ==
    /\ [](rmode => ntype = Undefined)
    /\ [](pc = "returned" /\ rmode => cbuf = <<>>)
    /\ []C39_Accumulated
    /\ [][C39_EndsInRawTextMode
            => IF cbuf # <<>>
               THEN pc' = "thrown" /\ err' = UnexpectedEndOfInput /\ nodes' = nodes
               ELSE pc' = "returned" /\ nodes' = nodes]_vars

\* <a>x/ with a raw-text element a: the input ended, and the parse threw
C39_Witness ==
    /\ profile = "raw" /\ pc = "thrown" /\ err = UnexpectedEndOfInput /\ rmode
    /\ data = <<LT_SIGN, "a", GT_SIGN, "x", F_SLASH>> /\ cbuf = <<"x", F_SLASH>>
    /\ Len(nodes) = 2

(* C40: in every reachable state of the scan, the gate is non-none only      *)
(* while the open node type is Element, and the attribute-name buffer is     *)
(* non-empty only while the open node type is Element; after the ">" that    *)
(* ends an element tag, gate, node type, node buffer, character buffer and   *)
(* attribute-name buffer are all back to their initial empty values.         *)
C40_GateAndNameOnlyInElement ==
    /\ gate # Undefined => ntype = ELEMENT
    /\ abuf # <<>> => ntype = ELEMENT

\* the step scans the ">" that ends an element tag
C40_ElementTagEnds ==
    /\ Scans(GT_SIGN) /\ ntype = ELEMENT
    /\ gate # SQ_A_VAL /\ gate # DQ_A_VAL
    /\ pc' = "scan"

C40_BackToInitial ==
    /\ gate' = Undefined /\ ntype' = Undefined /\ nbuf' = EmptyNbuf
    /\ cbuf' = <<>> /\ abuf' = <<>>

C40_BuffersBelongToElementTags ==
    /\ []C40_GateAndNameOnlyInElement
    /\ [][C40_ElementTagEnds => C40_BackToInitial]_vars

\* <a b=a> : the tag ended with an unquoted value pending, and all is reset
C40_Witness ==
    /\ pc = "scan" /\ last = "gt:element"
    /\ data = <<LT_SIGN, "a", SPACE, "b", EQ_SIGN, "a", GT_SIGN>>
    /\ Len(nodes) = 2 /\ nodes[2].attributes = << <<Str1("b"), Str1("a")>> >>
    /\ gate = Undefined /\ ntype = Undefined /\ nbuf = EmptyNbuf
    /\ cbuf = <<>> /\ abuf = <<>>

====
